---- MODULE Spec2Model ----
(***************************************************************************)
(* Jiraibrary catalog API: the item list endpoint (ItemViewSet.list), its  *)
(* filter set (ItemFilter) and the selected / filters / active_filters     *)
(* parts of its response.                                                  *)
(*                                                                         *)
(* Text is modelled as a sequence of characters (one-character strings),   *)
(* so str.partition, str.split and the f-strings that rebuild a value_key  *)
(* are computed, not assumed.  A Python Optional[int] is a set with at     *)
(* most one element ({} is None).                                          *)
(***************************************************************************)
EXTENDS Integers, Sequences, FiniteSets, TLC

VARIABLES
    catalog,    \* the database rows the list endpoint reads
    settings,   \* django.conf.settings: PREFERRED_CURRENCY_CODE
    request,    \* the query parameters of the list request being served
    response,   \* the body of the response to it: {} until it is answered
    reviews,    \* the ItemReview table, in order of creation
    submissions, \* the ItemSubmission table
    now,        \* timezone.now(), as the number of writes so far
    uploaded_images, \* the Image table, by key; a deleted row stays as a mark
    auth,       \* the User and Token tables the login views write
    inflight    \* review-create requests being served by other workers

vars == <<catalog, settings, request, response, reviews, submissions, now,
          uploaded_images, auth, inflight>>

\* the state of the tables the catalog and review endpoints do not read
uploads == <<uploaded_images, auth, inflight>>

\* no image, no account created by a login and no request in flight
NoUploads ==
    /\ uploaded_images = <<>>
    /\ auth = [users |-> {}, profiles |-> {}, tokens |-> {}]
    /\ inflight = <<>>

\* the state of the tables the list endpoint does not read
moderation == <<reviews, submissions, now>>

\* no review and no submission yet
NoModeration == reviews = <<>> /\ submissions = <<>> /\ now = 0 /\ NoUploads

(***************************************************************************)
(* Bounds of the model                                                     *)
(***************************************************************************)
\* most values one repeated range parameter carries in a request
MaxRanges == 2
\* most values one repeated identifier parameter carries in a request
MaxValues == 2
\* items in a catalog of the browsing scenarios
BrowseItems == 2

(***************************************************************************)
(* Python text operations                                                  *)
(***************************************************************************)
COLON == ":"
COMMA == ","

\* the empty str
EmptyStr == <<>>

\* index of the first occurrence of character c in s, 0 when absent
FirstIndex(s, c) ==
    IF \E i \in 1..Len(s) : s[i] = c
    THEN CHOOSE i \in 1..Len(s) : s[i] = c /\ \A j \in 1..(i - 1) : s[j] # c
    ELSE 0

\* str.partition(c): (head, sep, tail); sep is empty when c does not occur
Partition(s, c) ==
    LET i == FirstIndex(s, c)
    IN  IF i = 0
        THEN [head |-> s, sep |-> EmptyStr, tail |-> EmptyStr]
        ELSE [head |-> SubSeq(s, 1, i - 1),
              sep  |-> <<c>>,
              tail |-> SubSeq(s, i + 1, Len(s))]

\* str.split(c): the list of the fields between the occurrences of c
RECURSIVE Split(_, _)
Split(s, c) ==
    LET i == FirstIndex(s, c)
    IN  IF i = 0
        THEN <<s>>
        ELSE <<SubSeq(s, 1, i - 1)>> \o Split(SubSeq(s, i + 1, Len(s)), c)

DigitValue ==
    ("0" :> 0) @@ ("1" :> 1) @@ ("2" :> 2) @@ ("3" :> 3) @@ ("4" :> 4) @@
    ("5" :> 5) @@ ("6" :> 6) @@ ("7" :> 7) @@ ("8" :> 8) @@ ("9" :> 9)

IsDigits(s) == Len(s) > 0 /\ \A i \in 1..Len(s) : s[i] \in DOMAIN DigitValue

RECURSIVE DecimalValue(_)
DecimalValue(s) ==
    IF Len(s) = 0 THEN 0
    ELSE 10 * DecimalValue(SubSeq(s, 1, Len(s) - 1)) + DigitValue[s[Len(s)]]

\* int(value) / float(value) / Decimal(value) guarded by try/except: the
\* number when the text is an optional minus sign and a run of digits, None
\* ({}) when it is empty or anything else
ParseNumber(s) ==
    IF IsDigits(s) THEN {DecimalValue(s)}
    ELSE IF Len(s) > 1 /\ s[1] = "-" /\ IsDigits(Tail(s)) THEN {0 - DecimalValue(Tail(s))}
    ELSE {}

\* str.lower() on the letters the model uses
LowerChar(c) ==
    CASE c = "A" -> "a" [] c = "B" -> "b" [] c = "G" -> "g" [] c = "T" -> "t"
      [] OTHER -> c

Lower(s) == [k \in 1..Len(s) |-> LowerChar(s[k])]

\* sub in s
Contains(s, sub) ==
    \E k \in 0..(Len(s) - Len(sub)) : SubSeq(s, k + 1, k + Len(sub)) = sub

\* icontains: containment without regard to case
IContains(s, sub) == Contains(Lower(s), Lower(sub))

(***************************************************************************)
(* Identifiers.  A reference row (brand, category, tag, ...) is numbered   *)
(* 1, 2, ... in the order of its slug / name; the text of its identifier   *)
(* (a slug or a UUID) is the two-digit rendering of that number, so the    *)
(* order of the texts is the order of the numbers.                         *)
(***************************************************************************)
DigitChar == <<"0", "1", "2", "3", "4", "5", "6", "7", "8", "9">>

IdText(k) == <<DigitChar[(k \div 10) + 1], DigitChar[(k % 10) + 1]>>

\* currency codes
USD == <<"U">>
EUR == <<"E">>

\* Item.ItemStatus
DRAFT == "draft"
PENDING_REVIEW == "pending_review"
PUBLISHED == "published"
ARCHIVED == "archived"
ItemStatus == {DRAFT, PENDING_REVIEW, PUBLISHED, ARCHIVED}

\* ItemPrice.Source
PriceSource == {"origin", "converted", "manual"}

(***************************************************************************)
(* An Item row with the rows related to it.  brand is a brand number;      *)
(* category, subcategory and release_year are nullable ({} is NULL); the   *)
(* many-to-many fields are the sets of related row numbers; prices is the  *)
(* set of the item's ItemPrice rows.  The item's slug is the text of its   *)
(* position in catalog.items.                                              *)
(***************************************************************************)
Item(status, brand, category, subcategory, substyles, tags, release_year, prices) ==
    [status |-> status, brand |-> brand, category |-> category,
     subcategory |-> subcategory, substyles |-> substyles, tags |-> tags,
     colors |-> {}, collections |-> {}, fabrics |-> {}, features |-> {},
     release_year |-> release_year, prices |-> prices,
     measurements |-> {}, names |-> {}]

\* the same item with its colors, collections, fabrics and features
Dressed(item, colors, collections, fabrics, features) ==
    [item EXCEPT !.colors = colors, !.collections = collections,
                 !.fabrics = fabrics, !.features = features]

\* an ItemMeasurement row: every length is nullable
ItemMeasurement(bust_cm, waist_cm, hip_cm, length_cm) ==
    [bust_cm |-> bust_cm, waist_cm |-> waist_cm, hip_cm |-> hip_cm,
     length_cm |-> length_cm]

\* the same item with its ItemMeasurement rows
Measured(item, measurements) == [item EXCEPT !.measurements = measurements]

\* the same item with the names of its ItemTranslation rows
Named(item, names) == [item EXCEPT !.names = names]

ItemPrice(currency, amount, source) ==
    [currency |-> currency, amount |-> amount, source |-> source]

(***************************************************************************)
(* The identifier dimensions of ItemFilter, and for an item the            *)
(* identifier texts its related rows carry in each: the join the ORM       *)
(* lookup of the dimension walks (brand__slug, tags__id,                   *)
(* substyles__style__slug, ...), one entry per joined row.                 *)
(***************************************************************************)
Dimensions == <<"brand", "category", "subcategory", "style", "substyle",
                "tag", "color", "collection", "fabric", "feature">>

DimensionSet == {Dimensions[i] : i \in 1..Len(Dimensions)}

\* the related rows of item it that the lookup of dimension d joins
JoinedRows(cat, it, d) ==
    CASE d = "brand"       -> {it.brand}
      [] d = "category"    -> it.category
      [] d = "subcategory" -> it.subcategory
      [] d = "style"       -> {ss \in it.substyles : cat.substyle_style[ss] # {}}
      [] d = "substyle"    -> it.substyles
      [] d = "tag"         -> it.tags
      [] d = "color"       -> it.colors
      [] d = "collection"  -> it.collections
      [] d = "fabric"      -> it.fabrics
      [] d = "feature"     -> it.features

\* the identifier text the lookup of dimension d compares, for joined row r
JoinedText(cat, d, r) ==
    IF d = "style"
    THEN IdText(CHOOSE st \in cat.substyle_style[r] : TRUE)
    ELSE IdText(r)

(***************************************************************************)
(* Query parameters.  A request gives, for every parameter, the list of    *)
(* the values submitted under that name, in order (QueryDict.getlist);     *)
(* limit is absent ({}) or one text.                                       *)
(***************************************************************************)
\* QueryDict.get(name): the last value submitted, None ({}) when there is none
QueryDictGet(values) ==
    IF Len(values) = 0 THEN {} ELSE {values[Len(values)]}

\* EMPTY_VALUES of django_filters: a cleaned value for which Filter.filter and
\* FilterMethod.__call__ return the queryset unchanged.  value is {} (None) or
\* {v} with v a text or a list.
IsEmptyValue(value) == \A v \in value : v = <<>>

(***************************************************************************)
(* A queryset over Item is a bag of item rows: rows[i] is the number of    *)
(* times item i occurs in the rows the SQL query yields (a join to a       *)
(* multi-valued relation yields one row per matching related row).         *)
(***************************************************************************)
AllItems(cat) == [i \in DOMAIN cat.items |-> 1]

\* a slip: distinct() left out
DistinctLeftOut(rows) == rows

\* QuerySet.distinct(): every item at most once
Distinct(rows) == [i \in DOMAIN rows |-> IF rows[i] > 0 THEN 1 ELSE 0]

RECURSIVE SumUpTo(_, _)
SumUpTo(rows, n) == IF n = 0 THEN 0 ELSE rows[n] + SumUpTo(rows, n - 1)

\* QuerySet.count()
Count(rows) == SumUpTo(rows, Len(rows))

\* the items a queryset holds
Members(rows) == {i \in DOMAIN rows : rows[i] > 0}

(***************************************************************************)
(* SlugInFilter / UUIDInFilter (BaseInFilter): the cleaned value is the    *)
(* comma-separated fields of the last value submitted under the name       *)
(* (BaseCSVWidget.value_from_datadict reads data.get(name); "" is the      *)
(* empty list), and the lookup is <field>__in = those fields.              *)
(***************************************************************************)
CsvValue(values) ==
    {IF v = EmptyStr THEN <<>> ELSE Split(v, COMMA) : v \in QueryDictGet(values)}

UUIDDimensions == {"category", "subcategory", "tag", "color", "collection",
                   "fabric", "feature"}

\* hex.strip('{}') of uuid.UUID
RECURSIVE StripBraces(_)
StripBraces(text) ==
    IF Len(text) > 0 /\ text[1] \in {"{", "}"} THEN StripBraces(Tail(text))
    ELSE IF Len(text) > 0 /\ text[Len(text)] \in {"{", "}"}
    THEN StripBraces(SubSeq(text, 1, Len(text) - 1))
    ELSE text

\* uuid.UUID(text), as str() prints it: the two-digit text of a row number,
\* which may be submitted in braces (as a real UUID may be in upper case,
\* in braces or without hyphens); {} when the text is no UUID
UUIDOf(text) ==
    LET hex == StripBraces(text)
    IN  IF Len(hex) = 2 /\ IsDigits(hex) THEN {hex} ELSE {}

IsUUID(text) == UUIDOf(text) # {}

\* the value a lookup on the identifier of d compares with the rows: the
\* text itself for a slug, the UUID it denotes for an id
get_prep_value(d, text) == IF d \in UUIDDimensions THEN UUIDOf(text) ELSE {text}

\* the identifiers an in-filter looks up, as a set; {} when the filter is off
InTokens(values) ==
    UNION {{fields[k] : k \in 1..Len(fields)} : fields \in CsvValue(values)}

\* a slip: the lookup applied to all items instead of the rows filtered so far
InFilterFromAll(cat, rows, d, values) ==
    IF IsEmptyValue(CsvValue(values))
    THEN rows
    ELSE [i \in DOMAIN rows |->
            Cardinality({r \in JoinedRows(cat, cat.items[i], d) :
                           JoinedText(cat, d, r) \in
                               UNION {get_prep_value(d, t) : t \in InTokens(values)}})]

\* queryset.filter(<lookup of d>__in = tokens)
InFilter(cat, rows, d, values) ==
    IF IsEmptyValue(CsvValue(values))
    THEN rows
    ELSE [i \in DOMAIN rows |->
            rows[i] * Cardinality({r \in JoinedRows(cat, cat.items[i], d) :
                                     JoinedText(cat, d, r) \in
                               UNION {get_prep_value(d, t) : t \in InTokens(values)}})]

RECURSIVE InFilters(_, _, _, _)
InFilters(cat, rows, req, k) ==
    IF k = 0 THEN rows
    ELSE InFilter(cat, InFilters(cat, rows, req, k - 1),
                  Dimensions[k], req[Dimensions[k]])

(***************************************************************************)
(* The measurement filters (NumberFilter on measurements__<field>, gte or  *)
(* lte): the cleaned value is the number of the last value submitted, and  *)
(* the lookup joins the item's ItemMeasurement rows.                       *)
(***************************************************************************)
MeasurementKeys == <<"bust_min", "bust_max", "waist_min", "waist_max",
                     "hip_min", "hip_max", "length_min", "length_max">>

MeasurementKeySet == {MeasurementKeys[k] : k \in 1..Len(MeasurementKeys)}

MeasurementField(key) ==
    CASE key \in {"bust_min", "bust_max"} -> "bust_cm"
      [] key \in {"waist_min", "waist_max"} -> "waist_cm"
      [] key \in {"hip_min", "hip_max"} -> "hip_cm"
      [] key \in {"length_min", "length_max"} -> "length_cm"

IsMinKey(key) == key \in {"bust_min", "waist_min", "hip_min", "length_min"}

\* queryset.filter(measurements__<field>__gte / __lte = value)
NumberFilter(cat, rows, key, values) ==
    LET value == UNION {ParseNumber(v) : v \in QueryDictGet(values)}
        Holds(m) == \E x \in m[MeasurementField(key)] : \A n \in value :
                        IF IsMinKey(key) THEN x >= n ELSE x <= n
    IN  IF value = {} THEN rows
        ELSE [i \in DOMAIN rows |->
                rows[i] * Cardinality({m \in cat.items[i].measurements : Holds(m)})]

RECURSIVE NumberFilters(_, _, _, _)
NumberFilters(cat, rows, req, k) ==
    IF k = 0 THEN rows
    ELSE NumberFilter(cat, NumberFilters(cat, rows, req, k - 1),
                      MeasurementKeys[k], req.measurement[MeasurementKeys[k]])

(***************************************************************************)
(* The form of the filter set.  The fields of a UUIDInFilter are cleaned   *)
(* by a UUIDField and the value of a NumberFilter by a DecimalField; with  *)
(* an invalid form DjangoFilterBackend raises a ValidationError, which the *)
(* framework answers with status 400.                                      *)
(***************************************************************************)
is_valid(req) ==
    /\ \A d \in UUIDDimensions : \A fields \in CsvValue(req[d]) :
          \A k \in 1..Len(fields) : fields[k] = EmptyStr \/ IsUUID(fields[k])
    /\ \A key \in MeasurementKeySet : \A v \in QueryDictGet(req.measurement[key]) :
          v = EmptyStr \/ ParseNumber(v) # {}

(***************************************************************************)
(* ItemFilter.filter_release_year_range                                    *)
(***************************************************************************)
\* one raw value -> the bounds of its clause
ReleaseClause(raw) ==
    LET p == Partition(raw, COLON)
    IN  [min |-> ParseNumber(IF p.sep # EmptyStr THEN p.head ELSE raw),
         max |-> IF p.sep # EmptyStr THEN ParseNumber(p.tail) ELSE {}]

HasBound(clause) == clause.min # {} \/ clause.max # {}

InBounds(clause, n) ==
    /\ \A lo \in clause.min : n >= lo
    /\ \A hi \in clause.max : n <= hi

ReleaseClauses(raw_ranges) ==
    SelectSeq([k \in 1..Len(raw_ranges) |-> ReleaseClause(raw_ranges[k])], HasBound)

\* FilterMethod.__call__: the method runs only when the cleaned value of the
\* CharFilter, the last value submitted, is not empty
MethodCalled(values) == ~IsEmptyValue(QueryDictGet(values))

filter_release_year_range(cat, rows, raw_ranges) ==
    LET clauses == ReleaseClauses(raw_ranges)
    IN  IF ~MethodCalled(raw_ranges) \/ Len(clauses) = 0
        THEN rows
        ELSE [i \in DOMAIN rows |->
                IF \E y \in cat.items[i].release_year :
                     \E k \in 1..Len(clauses) : InBounds(clauses[k], y)
                THEN rows[i] ELSE 0]

(***************************************************************************)
(* ItemFilter.filter_price_range                                           *)
(***************************************************************************)
\* the first three fields of raw.split(":"), absent ones empty
PriceParts(raw) ==
    LET parts == Split(raw, COLON)
    IN  [currency_part |-> parts[1],
         min_part |-> IF Len(parts) >= 2 THEN parts[2] ELSE EmptyStr,
         max_part |-> IF Len(parts) >= 3 THEN parts[3] ELSE EmptyStr]

\* currency_part or preferred_currency: {} when neither is given
FilterCurrency(stg, currency_part) ==
    IF currency_part # EmptyStr THEN {currency_part}
    ELSE {c \in stg.PREFERRED_CURRENCY_CODE : c # EmptyStr}

PriceClause(stg, raw) ==
    LET p == PriceParts(raw)
    IN  [currency |-> FilterCurrency(stg, p.currency_part),
         min |-> ParseNumber(p.min_part),
         max |-> ParseNumber(p.max_part)]

PriceClauseKept(clause) == clause.currency # {} /\ HasBound(clause)

PriceClauses(stg, raw_ranges) ==
    SelectSeq([k \in 1..Len(raw_ranges) |-> PriceClause(stg, raw_ranges[k])],
              PriceClauseKept)

\* one ItemPrice row satisfies the clause: its currency and its amount
PriceRowMatches(clause, it, price) ==
    /\ price.currency \in clause.currency
    /\ InBounds(clause, price.amount)

filter_price_range(cat, stg, rows, raw_ranges) ==
    LET clauses == PriceClauses(stg, raw_ranges)
    IN  IF ~MethodCalled(raw_ranges) \/ Len(clauses) = 0
        THEN rows
        ELSE Distinct(
               [i \in DOMAIN rows |->
                  rows[i] * Cardinality({price \in cat.items[i].prices :
                      \E k \in 1..Len(clauses) :
                          PriceRowMatches(clauses[k], cat.items[i], price)})])

(***************************************************************************)
(* ItemFilter.filter_search: q is contained, without regard to case, in a  *)
(* translated name, in the brand slug or in the item slug                  *)
(***************************************************************************)
filter_search(cat, rows, values) ==
    IF ~MethodCalled(values) THEN rows
    ELSE LET value == CHOOSE v \in QueryDictGet(values) : TRUE
             Found(i) ==
                 \/ \E name \in cat.items[i].names : IContains(name, value)
                 \/ IContains(IdText(cat.items[i].brand), value)
                 \/ IContains(IdText(i), value)
         IN  [i \in DOMAIN rows |-> IF Found(i) THEN Distinct(rows)[i] ELSE 0]

(***************************************************************************)
(* ItemFilter.qs over ItemViewSet.queryset: every declared filter applied  *)
(* in turn, then distinct().                                               *)
(***************************************************************************)
ViewQueryset(cat) == Distinct(AllItems(cat))

filter_queryset(cat, stg, req) ==
    Distinct(
      filter_search(cat,
        filter_price_range(cat, stg,
          filter_release_year_range(cat,
            NumberFilters(cat,
              InFilters(cat, ViewQueryset(cat), req, Len(Dimensions)),
              req, Len(MeasurementKeys)),
            req.release_year_range),
          req.price_range),
        req.q))

(***************************************************************************)
(* ItemViewSet._extract_selected_filters                                   *)
(***************************************************************************)
NonEmpty(value) == value # EmptyStr

\* normalize_list(param)
normalize_list(values) == SelectSeq(values, NonEmpty)

\* normalize(request.query_params.get(param)): None ({}) for no or an empty value
normalize(values) == {v \in QueryDictGet(values) : v # EmptyStr}

\* normalize_number(param): the number of the last value, None when it has none
normalize_number(values) == UNION {ParseNumber(v) : v \in QueryDictGet(values)}

\* one release_year_range value -> its echoed entry
ReleaseEntry(raw) ==
    LET p == Partition(raw, COLON)
    IN  [min |-> IF p.sep # EmptyStr THEN ParseNumber(p.head) ELSE ParseNumber(raw),
         max |-> IF p.sep # EmptyStr THEN ParseNumber(p.tail) ELSE {},
         value_key |-> IF p.sep # EmptyStr
                       THEN p.head \o <<COLON>> \o p.tail
                       ELSE p.head]

\* entries in submission order, those without any bound dropped
selected_release_year_ranges(req) ==
    SelectSeq([k \in 1..Len(req.release_year_range) |->
                  ReleaseEntry(req.release_year_range[k])], HasBound)

\* price_currency: the setting when it is a non-empty str, else "USD"
price_currency(stg) ==
    IF \E c \in stg.PREFERRED_CURRENCY_CODE : c # EmptyStr
    THEN CHOOSE c \in stg.PREFERRED_CURRENCY_CODE : TRUE
    ELSE USD

\* the three fields the view reads from raw.split(":")
ViewPriceParts(raw) ==
    LET parts == Split(raw, COLON)
    IN  IF Len(parts) = 3
        THEN [currency_part |-> parts[1], min_part |-> parts[2], max_part |-> parts[3]]
        ELSE IF Len(parts) = 2
        THEN [currency_part |-> parts[1], min_part |-> parts[2], max_part |-> EmptyStr]
        ELSE [currency_part |-> parts[1], min_part |-> EmptyStr, max_part |-> EmptyStr]

PriceEntry(stg, raw) ==
    LET p == ViewPriceParts(raw)
        currency_code == IF p.currency_part # EmptyStr
                         THEN p.currency_part ELSE price_currency(stg)
    IN  [currency |-> currency_code,
         min |-> ParseNumber(p.min_part),
         max |-> ParseNumber(p.max_part),
         value_key |-> currency_code \o <<COLON>> \o p.min_part
                           \o <<COLON>> \o p.max_part]

selected_price_ranges(stg, req) ==
    SelectSeq([k \in 1..Len(req.price_range) |-> PriceEntry(stg, req.price_range[k])],
              HasBound)

MapSeq(s, Op(_)) == [k \in 1..Len(s) |-> Op(s[k])]

\* the dict _extract_selected_filters returns
_extract_selected_filters(stg, req) ==
    [q |-> normalize(req.q),
     brand |-> normalize_list(req.brand),
     category |-> normalize_list(req.category),
     subcategory |-> normalize_list(req.subcategory),
     style |-> normalize_list(req.style),
     substyle |-> normalize_list(req.substyle),
     tag |-> normalize_list(req.tag),
     color |-> normalize_list(req.color),
     collection |-> normalize_list(req.collection),
     fabric |-> normalize_list(req.fabric),
     feature |-> normalize_list(req.feature),
     measurement |-> [key \in MeasurementKeySet |->
                         normalize_number(req.measurement[key])],
     release_year_ranges |-> selected_release_year_ranges(req),
     price_currency |-> price_currency(stg),
     price_ranges |-> selected_price_ranges(stg, req)]

(***************************************************************************)
(* ItemViewSet._build_active_filters                                       *)
(***************************************************************************)
Range(s) == {s[k] : k \in 1..Len(s)}

\* dict.fromkeys(values): first occurrences, in order
RECURSIVE FromKeys(_)
FromKeys(s) ==
    IF Len(s) = 0 THEN <<>>
    ELSE LET front == FromKeys(SubSeq(s, 1, Len(s) - 1))
         IN  IF s[Len(s)] \in Range(front) THEN front ELSE Append(front, s[Len(s)])

\* the order in which _build_active_filters walks the identifier dimensions
ChipDimensions == <<"brand", "category", "subcategory", "style", "substyle",
                    "tag", "color", "fabric", "feature", "collection">>

ChipLabel ==
    [d \in DimensionSet |->
        CASE d = "brand" -> "Brand"       [] d = "category" -> "Category"
          [] d = "subcategory" -> "Subcategory" [] d = "style" -> "Style"
          [] d = "substyle" -> "Substyle" [] d = "tag" -> "Tag"
          [] d = "color" -> "Color"       [] d = "fabric" -> "Fabric"
          [] d = "feature" -> "Feature"   [] d = "collection" -> "Collection"]

\* Model.objects.filter(<identifier> = text).first(): the row, {} when none
RowOf(cat, d, text) == {r \in 1..cat.rows[d] : IdText(r) \in get_prep_value(d, text)}

\* the chips of identifier dimension d: one per distinct selected value
\* that names an existing row
IdentifierChips(cat, selected, d) ==
    LET keys == FromKeys(selected[d])
        Found(text) == RowOf(cat, d, text) # {}
        Chip(text) == [label |-> ChipLabel[d],
                       value |-> CHOOSE r \in RowOf(cat, d, text) : TRUE,
                       param |-> d,
                       value_key |-> IdText(CHOOSE r \in RowOf(cat, d, text) : TRUE)]
    IN  MapSeq(SelectSeq(keys, Found), Chip)

RECURSIVE AllIdentifierChips(_, _, _)
AllIdentifierChips(cat, selected, k) ==
    IF k = 0 THEN <<>>
    ELSE AllIdentifierChips(cat, selected, k - 1)
             \o IdentifierChips(cat, selected, ChipDimensions[k])

\* the chip of the search text: it has no value_key
SearchChips(selected) ==
    IF selected.q = {} THEN <<>>
    ELSE <<[label |-> "Search",
            value |-> CHOOSE v \in selected.q : TRUE,
            param |-> "q"]>>

\* the decimal digits of a natural number
RECURSIVE NatText(_)
NatText(n) ==
    IF n < 10 THEN <<DigitChar[n + 1]>>
    ELSE NatText(n \div 10) \o <<DigitChar[(n % 10) + 1]>>

\* f"{value:g}" for a whole number below a million
FormatG(n) == IF n < 0 THEN <<"-">> \o NatText(0 - n) ELSE NatText(n)

MeasurementLabel(key) ==
    CASE key \in {"bust_min", "bust_max"} -> "Bust"
      [] key \in {"waist_min", "waist_max"} -> "Waist"
      [] key \in {"hip_min", "hip_max"} -> "Hip"
      [] key \in {"length_min", "length_max"} -> "Length"

\* the chips of the measurement bounds, in the order of measurement_labels
RECURSIVE MeasurementChips(_, _)
MeasurementChips(selected, k) ==
    IF k = 0 THEN <<>>
    ELSE LET key == MeasurementKeys[k]
             Chip(n) == [label |-> MeasurementLabel(key),
                         value |-> <<IF IsMinKey(key) THEN ">=" ELSE "<=", " ">>
                                       \o FormatG(n) \o <<" ", "c", "m">>,
                         param |-> "measurement_" \o key,
                         value_key |-> FormatG(n)]
         IN  MeasurementChips(selected, k - 1)
               \o (IF selected.measurement[key] = {} THEN <<>>
                   ELSE <<Chip(CHOOSE n \in selected.measurement[key] : TRUE)>>)

ChipHasKey(entry) == HasBound(entry) /\ entry.value_key # EmptyStr

ReleaseChip(entry) ==
    [label |-> "Release year",
     value |-> [min |-> entry.min, max |-> entry.max],
     param |-> "release_year_range",
     value_key |-> entry.value_key]

PriceChip(entry) ==
    [label |-> "Price",
     value |-> [min |-> entry.min, max |-> entry.max, currency |-> entry.currency],
     param |-> "price_range",
     value_key |-> entry.value_key]

PriceChipHasKey(entry) == entry.currency # EmptyStr /\ ChipHasKey(entry)

_build_active_filters(cat, selected) ==
    SearchChips(selected)
      \o AllIdentifierChips(cat, selected, Len(ChipDimensions))
      \o MeasurementChips(selected, Len(MeasurementKeys))
      \o MapSeq(SelectSeq(selected.release_year_ranges, ChipHasKey), ReleaseChip)
      \o MapSeq(SelectSeq(selected.price_ranges, PriceChipHasKey), PriceChip)

(***************************************************************************)
(* ItemViewSet._build_filters_payload                                      *)
(***************************************************************************)
\* the slices that cap the option lists, and the default page size
BrandCap == 48
TagCap == 60
ColorCap == 48
CollectionCap == 48
FabricCap == 48
FeatureCap == 48
DefaultLimit == 60

\* the rows of dimension d that item it is related to (Count("items") walks
\* the relation from the row's side; a style reaches items through its substyles)
RelatedRows(cat, it, d) ==
    IF d = "style"
    THEN UNION {cat.substyle_style[ss] : ss \in it.substyles}
    ELSE JoinedRows(cat, it, d)

\* a slip: the items of every status counted
item_countOfAnyStatus(cat, d, r) ==
    Cardinality({i \in DOMAIN cat.items : r \in RelatedRows(cat, cat.items[i], d)})

\* Count("items", filter=published_filter, distinct=True) for row r of d
item_count(cat, d, r) ==
    Cardinality({i \in DOMAIN cat.items :
                    /\ cat.items[i].status = PUBLISHED
                    /\ r \in RelatedRows(cat, cat.items[i], d)})

\* the table of dimension d as the list of its rows in name / slug order
TableRows(cat, d) == [r \in 1..cat.rows[d] |-> r]

\* queryset[:cap]
Slice(s, cap) == SubSeq(s, 1, IF Len(s) < cap THEN Len(s) ELSE cap)

\* .filter(Q(item_count__gt=0) | Q(<identifier>__in=selected)): the rows of d
\* that carry a published item or are selected
KeptRows(cat, d, chosen) ==
    LET Keep(r) ==
            \/ item_count(cat, d, r) > 0
            \/ \E v \in chosen : IdText(r) \in get_prep_value(d, v)
    IN  SelectSeq(TableRows(cat, d), Keep)

\* the name of row r of d as its rank among the names of the table: brands,
\* tags, ... have unique names or slugs, two colors or two collections may
\* share a name
NameOf(cat, d, r) == IF d \in DOMAIN cat.names THEN cat.names[d][r] ELSE r

\* the order in which the database yields two rows that its ORDER BY leaves
\* tied: unspecified, here by ascending or by descending primary key
ScanOrders == {"forward", "backward"}

TiedBefore(cat, a, b) == IF cat.scan = "forward" THEN a < b ELSE a > b

\* the same catalog as the database scans it in the given order
Scanned(cat, scan) == [cat EXCEPT !.scan = scan]

\* .order_by("-item_count", <name or slug>)
ByCountThenName(cat, d, rows) ==
    LET Before(a, b) ==
            \/ item_count(cat, d, a) > item_count(cat, d, b)
            \/ /\ item_count(cat, d, a) = item_count(cat, d, b)
               /\ \/ NameOf(cat, d, a) < NameOf(cat, d, b)
                  \/ NameOf(cat, d, a) = NameOf(cat, d, b) /\ TiedBefore(cat, a, b)
    IN  SortSeq(rows, Before)

Option(cat, d, chosen, r) ==
    [id |-> IdText(r),
     selected |-> IdText(r) \in chosen,
     item_count |-> item_count(cat, d, r)]

\* brands, tags, colors: by descending count, then capped
CountedOptions(cat, d, chosen, cap) ==
    LET Opt(r) == Option(cat, d, chosen, r)
    IN  MapSeq(Slice(ByCountThenName(cat, d, KeptRows(cat, d, chosen)), cap), Opt)

\* fabrics, features: by name, then capped
NamedOptions(cat, d, chosen, cap) ==
    LET Opt(r) == Option(cat, d, chosen, r)
    IN  MapSeq(Slice(KeptRows(cat, d, chosen), cap), Opt)

\* collections: .order_by("-year", "name"), capped; the option has no item_count
CollectionOptions(cat, chosen, cap) ==
    LET Before(a, b) ==
            \/ cat.collection_year[a] > cat.collection_year[b]
            \/ /\ cat.collection_year[a] = cat.collection_year[b]
               /\ \/ NameOf(cat, "collection", a) < NameOf(cat, "collection", b)
                  \/ /\ NameOf(cat, "collection", a) = NameOf(cat, "collection", b)
                     /\ TiedBefore(cat, a, b)
        Opt(r) == [id |-> IdText(r),
                   year |-> cat.collection_year[r],
                   selected |-> IdText(r) \in chosen]
    IN  MapSeq(Slice(SortSeq(KeptRows(cat, "collection", chosen), Before), cap), Opt)

\* subcategory_map.get(category_id, []): the kept subcategories of category c
SubcategoryOptions(cat, chosen, c) ==
    LET Under(r) == cat.subcategory_category[r] = c
        Opt(r) == Option(cat, "subcategory", chosen, r)
    IN  MapSeq(SelectSeq(KeptRows(cat, "subcategory", chosen), Under), Opt)

\* a slip: a category flagged only when it is selected itself
CategoryOptionsOwnFlag(cat, chosen, chosen_sub) ==
    LET Keep(c) ==
            \/ item_count(cat, "category", c) > 0
            \/ \E v \in chosen : IdText(c) \in get_prep_value("category", v)
            \/ \E r \in 1..cat.rows["subcategory"] :
                  /\ cat.subcategory_category[r] = c
                  /\ \E v \in chosen_sub : IdText(r) \in get_prep_value("subcategory", v)
        Opt(c) ==
            [id |-> IdText(c),
             selected |-> IdText(c) \in chosen,
             item_count |-> item_count(cat, "category", c),
             children |-> SubcategoryOptions(cat, chosen_sub, c)]
    IN  MapSeq(SelectSeq(TableRows(cat, "category"), Keep), Opt)

\* category_options
CategoryOptions(cat, chosen, chosen_sub) ==
    LET Keep(c) ==
            \/ item_count(cat, "category", c) > 0
            \/ \E v \in chosen : IdText(c) \in get_prep_value("category", v)
            \/ \E r \in 1..cat.rows["subcategory"] :
                  /\ cat.subcategory_category[r] = c
                  /\ \E v \in chosen_sub : IdText(r) \in get_prep_value("subcategory", v)
        Opt(c) ==
            LET subcategories == SubcategoryOptions(cat, chosen_sub, c)
            IN  [id |-> IdText(c),
                 selected |-> \/ IdText(c) \in chosen
                              \/ \E k \in 1..Len(subcategories) : subcategories[k].selected,
                 item_count |-> item_count(cat, "category", c),
                 children |-> subcategories]
    IN  MapSeq(SelectSeq(TableRows(cat, "category"), Keep), Opt)

\* substyle_map.get(style.slug, []): the kept substyles of style st; a
\* substyle without a style is skipped
SubstyleOptions(cat, chosen, st) ==
    LET Under(r) == cat.substyle_style[r] = {st}
        Opt(r) == Option(cat, "substyle", chosen, r)
    IN  MapSeq(SelectSeq(KeptRows(cat, "substyle", chosen), Under), Opt)

\* style_options
StyleKeep(cat, chosen, chosen_sub, st) ==
    \/ item_count(cat, "style", st) > 0
    \/ IdText(st) \in chosen

StyleOptions(cat, chosen, chosen_sub) ==
    LET Keep(st) == StyleKeep(cat, chosen, chosen_sub, st)
        Opt(st) ==
            LET substyles == SubstyleOptions(cat, chosen_sub, st)
            IN  [id |-> IdText(st),
                 selected |-> \/ IdText(st) \in chosen
                              \/ \E k \in 1..Len(substyles) : substyles[k].selected,
                 item_count |-> item_count(cat, "style", st),
                 children |-> substyles]
    IN  MapSeq(SelectSeq(TableRows(cat, "style"), Keep), Opt)

\* Min / Max of release_year over the published items that have one
PublishedYears(cat) ==
    UNION {cat.items[i].release_year :
              i \in {j \in DOMAIN cat.items : cat.items[j].status = PUBLISHED}}

MinOf(S) == {x \in S : \A y \in S : x <= y}
MaxOf(S) == {x \in S : \A y \in S : x >= y}

\* the amounts of the ItemPrice rows of published items in currency code
PublishedAmounts(cat, code) ==
    UNION {{price.amount : price \in {p \in cat.items[i].prices : p.currency = code}} :
              i \in {j \in DOMAIN cat.items : cat.items[j].status = PUBLISHED}}

\* Count("id") of the ItemPrice rows of published items in currency code
currency_count(cat, code) ==
    LET published == {j \in DOMAIN cat.items : cat.items[j].status = PUBLISHED}
        Rows(i) == Cardinality({p \in cat.items[i].prices : p.currency = code})
        RECURSIVE Sum(_)
        Sum(S) == IF S = {} THEN 0
                  ELSE LET i == CHOOSE x \in S : TRUE IN Rows(i) + Sum(S \ {i})
    IN  Sum(published)

\* the Currency rows, by code
Currencies == <<EUR, USD>>

\* .values("currency__code").annotate(currency_count=Count("id"))
\* .order_by("-currency_count").first(): a currency with the most rows; which
\* one of several is left to the database
fallback_currency(cat) ==
    LET priced == {k \in 1..Len(Currencies) : currency_count(cat, Currencies[k]) > 0}
        most == {k \in priced : \A j \in priced :
                    currency_count(cat, Currencies[k]) >= currency_count(cat, Currencies[j])}
    IN  {Currencies[k] : k \in {m \in most : \A j \in most : m = j \/ TiedBefore(cat, m, j)}}

\* filters["prices"]: the preferred currency when it is set and has published
\* prices, else the fallback currency, else "USD"
PricesPayload(cat, stg) ==
    LET configured == {c \in stg.PREFERRED_CURRENCY_CODE : c # EmptyStr}
        usable == {c \in configured : PublishedAmounts(cat, c) # {}}
        resolved == IF usable # {} THEN usable ELSE fallback_currency(cat)
        kept == IF resolved # {} THEN resolved ELSE configured
        amounts == UNION {PublishedAmounts(cat, c) : c \in resolved}
    IN  [currency |-> IF kept # {} THEN CHOOSE c \in kept : TRUE ELSE USD,
         min |-> MinOf(amounts),
         max |-> MaxOf(amounts)]

\* filters["measurements"]: Min / Max of each length over the ItemMeasurement
\* rows of published items
MeasurementOptions(cat) ==
    LET lengths(field) ==
            UNION {UNION {m[field] : m \in cat.items[i].measurements} :
                      i \in {j \in DOMAIN cat.items : cat.items[j].status = PUBLISHED}}
    IN  [field \in {"bust_cm", "waist_cm", "hip_cm", "length_cm"} |->
            [min |-> MinOf(lengths(field)), max |-> MaxOf(lengths(field))]]

_build_filters_payload(cat, stg, selected) ==
    [brands |-> CountedOptions(cat, "brand", Range(selected.brand), BrandCap),
     categories |-> CategoryOptions(cat, Range(selected.category),
                                    Range(selected.subcategory)),
     styles |-> StyleOptions(cat, Range(selected.style), Range(selected.substyle)),
     tags |-> CountedOptions(cat, "tag", Range(selected.tag), TagCap),
     colors |-> CountedOptions(cat, "color", Range(selected.color), ColorCap),
     collections |-> CollectionOptions(cat, Range(selected.collection), CollectionCap),
     fabrics |-> NamedOptions(cat, "fabric", Range(selected.fabric), FabricCap),
     features |-> NamedOptions(cat, "feature", Range(selected.feature), FeatureCap),
     measurements |-> MeasurementOptions(cat),
     release_year |-> [min |-> MinOf(PublishedYears(cat)),
                       max |-> MaxOf(PublishedYears(cat))],
     prices |-> PricesPayload(cat, stg)]

(***************************************************************************)
(* ItemViewSet.list                                                        *)
(***************************************************************************)
\* a slip: a limit that is not positive replaced by the default
LimitOrDefault(req) ==
    IF \E t \in req.limit : \E n \in ParseNumber(t) : n > 0
    THEN CHOOSE n \in UNION {ParseNumber(t) : t \in req.limit} : TRUE
    ELSE DefaultLimit

\* limit = int(limit_param) if limit_param else 60; 60 on ValueError
Limit(req) ==
    IF \E t \in req.limit : ParseNumber(t) # {}
    THEN CHOOSE n \in UNION {ParseNumber(t) : t \in req.limit} : TRUE
    ELSE DefaultLimit

\* OrderingFilter with ordering = ["brand__slug", "slug"]
DefaultOrdering(cat) ==
    LET Before(a, b) ==
            \/ cat.items[a].brand < cat.items[b].brand
            \/ cat.items[a].brand = cat.items[b].brand /\ a < b
    IN  SortSeq([i \in DOMAIN cat.items |-> i], Before)

RECURSIVE Repeat(_, _)
Repeat(x, n) == IF n = 0 THEN <<>> ELSE <<x>> \o Repeat(x, n - 1)

RECURSIVE Expand(_, _)
Expand(ids, rows) ==
    IF Len(ids) = 0 THEN <<>>
    ELSE Repeat(ids[1], rows[ids[1]]) \o Expand(Tail(ids), rows)

\* the rows of the queryset in order, one entry per row
OrderedRows(cat, rows) ==
    LET Held(i) == rows[i] > 0
        ids == SelectSeq(DefaultOrdering(cat), Held)
    IN  IF \A i \in DOMAIN rows : rows[i] <= 1 THEN ids ELSE Expand(ids, rows)

\* total_count = queryset.count(), taken before the slice
total_count(cat, stg, req) == Count(filter_queryset(cat, stg, req))

\* a slip: the count taken from the page instead of the queryset
ListResponseCountsPage(cat, stg, req) ==
    LET queryset == filter_queryset(cat, stg, req)
        limit == Limit(req)
        ordered == OrderedRows(cat, queryset)
        page == IF limit > 0 THEN Slice(ordered, limit) ELSE ordered
        selected == _extract_selected_filters(stg, req)
    IN  [status_code |-> 200,
         results |-> page,
         result_count |-> Len(page),
         filters |-> _build_filters_payload(cat, stg, selected),
         selected |-> selected,
         active_filters |-> _build_active_filters(cat, selected)]

ListResponse(cat, stg, req) ==
    LET queryset == filter_queryset(cat, stg, req)
        limit == Limit(req)
        ordered == OrderedRows(cat, queryset)
        selected == _extract_selected_filters(stg, req)
    IN  [status_code |-> 200,
         results |-> IF limit > 0 THEN Slice(ordered, limit) ELSE ordered,
         result_count |-> total_count(cat, stg, req),
         filters |-> _build_filters_payload(cat, stg, selected),
         selected |-> selected,
         active_filters |-> _build_active_filters(cat, selected)]

\* UUIDField.get_prep_value raises a ValidationError of django.core when a
\* lookup (id__in in _build_filters_payload, id= in _build_active_filters) is
\* built from a text that is not a UUID; nothing catches it
get_prep_value_raises(selected) ==
    \E d \in UUIDDimensions : \E v \in Range(selected[d]) : ~IsUUID(v)

\* the answer to GET /items/: 400 when the form of the filter set is invalid,
\* 500 when building the payload raises, else the list response
Respond(cat, stg, req) ==
    IF ~is_valid(req) THEN [status_code |-> 400]
    ELSE IF get_prep_value_raises(_extract_selected_filters(stg, req))
    THEN [status_code |-> 500]
    ELSE ListResponse(cat, stg, req)

\* GET /items/ : the pending request is answered, once
list ==
    /\ response = {}
    /\ \E scan \in ScanOrders :
          response' = {Respond(Scanned(catalog, scan), settings, request)}
    /\ UNCHANGED <<catalog, settings, request, moderation, uploads>>

(***************************************************************************)
(* Requests and catalogs                                                   *)
(***************************************************************************)
NoValues == <<>>

\* a request with no parameter at all
EmptyRequest ==
    [limit |-> {}, brand |-> NoValues, category |-> NoValues,
     subcategory |-> NoValues, style |-> NoValues, substyle |-> NoValues,
     tag |-> NoValues, color |-> NoValues, collection |-> NoValues,
     fabric |-> NoValues, feature |-> NoValues,
     release_year_range |-> NoValues, price_range |-> NoValues,
     q |-> NoValues, measurement |-> [key \in MeasurementKeySet |-> NoValues]]

\* the lists of at most n values drawn from S
RECURSIVE ListsUpTo(_, _)
ListsUpTo(S, n) ==
    IF n = 0 THEN {<<>>}
    ELSE LET shorter == ListsUpTo(S, n - 1)
         IN  shorter \cup {Append(l, v) : l \in shorter, v \in S}

\* rows[d] is the number of rows of the table of dimension d; a subcategory
\* belongs to one category, a substyle to one style or to none ({}), a
\* collection has a year
Catalog(items, rows, subcategory_category, substyle_style, collection_year) ==
    [items |-> items,
     rows |-> rows @@ [d \in DimensionSet |-> 0],
     subcategory_category |-> subcategory_category,
     substyle_style |-> substyle_style,
     collection_year |-> collection_year,
     names |-> [d \in {"color", "collection"} |->
                  [r \in 1..(rows @@ [e \in DimensionSet |-> 0])[d] |-> r]],
     scan |-> "forward"]

\* the same catalog with the rows of dimension d named as given
Renamed(cat, d, names) == [cat EXCEPT !.names[d] = names]

Unset == [PREFERRED_CURRENCY_CODE |-> {}]

(***************************************************************************)
(* Browsing: two brands, two substyles of one style, items of several      *)
(* statuses, one of them with two substyles, a release year and two prices *)
(* in one currency                                                         *)
(***************************************************************************)
Text(a) == <<a>>
Joined(a, sep, b) == a \o <<sep>> \o b

BrowseItemKinds ==
    {Item(PUBLISHED, 1, {}, {}, {1}, {}, {}, {}),
     Item(PUBLISHED, 1, {}, {}, {1, 2}, {}, {2},
          {ItemPrice(USD, 1, "origin"), ItemPrice(USD, 3, "manual")}),
     Item(DRAFT, 2, {}, {}, {2}, {}, {}, {}),
     Item(ARCHIVED, 1, {}, {}, {}, {}, {}, {})}

BrowseCatalogs ==
    {Catalog(items, ("brand" :> 2) @@ ("style" :> 1) @@ ("substyle" :> 2),
             <<>>, <<{1}, {1}>>, <<>>) :
        items \in [1..BrowseItems -> BrowseItemKinds]}

BrowseRequests ==
    {[EmptyRequest EXCEPT !.brand = b, !.substyle = t, !.limit = l,
                          !.release_year_range = y, !.price_range = p] :
        b \in {NoValues, <<IdText(1)>>, <<IdText(2)>>},
        t \in ListsUpTo({IdText(1), IdText(2), Joined(IdText(1), COMMA, IdText(2))},
                        MaxValues),
        l \in {{}, {Text("1")}},
        y \in {NoValues, <<Joined(Text("1"), COLON, EmptyStr),
                           Joined(EmptyStr, COLON, Text("3"))>>},
        p \in {NoValues,
               <<Joined(USD, COLON, Text("1")),
                 Joined(Joined(USD, COLON, EmptyStr), COLON, Text("3"))>>}}

InitBrowse ==
    /\ catalog \in BrowseCatalogs
    /\ settings = Unset
    /\ request \in BrowseRequests
    /\ response = {}
    /\ NoModeration

SpecBrowse == InitBrowse /\ [][list]_vars

(***************************************************************************)
(* Ranges: release_year_range values built from the parts "", "1", "3" and *)
(* "x"; price_range values of one to four fields with the currency given   *)
(* or left empty; PREFERRED_CURRENCY_CODE unset, as in config/settings.py, *)
(* or set, as in the tests; items with a release year or none and with     *)
(* prices in one or two currencies                                         *)
(***************************************************************************)
Joined3(a, b, c) == Joined(Joined(a, COLON, b), COLON, c)

YearParts == {EmptyStr, Text("1"), Text("3"), Text("x")}

YearRaws ==
    YearParts
      \cup {Joined(a, COLON, b) : a \in YearParts, b \in YearParts}
      \cup {Joined3(Text("1"), EmptyStr, Text("3"))}

CurrencyParts == {EmptyStr, USD, EUR}

AmountParts == {EmptyStr, Text("2")}

PriceRaws ==
    {EmptyStr, USD}
      \cup {Joined(c, COLON, a) : c \in CurrencyParts, a \in AmountParts}
      \cup {Joined3(c, a, b) : c \in CurrencyParts, a \in AmountParts, b \in AmountParts}
      \cup {Joined(Joined3(EmptyStr, Text("2"), Text("2")), COLON, EmptyStr),
            Joined(Joined3(USD, Text("2"), EmptyStr), COLON, EmptyStr),
            Joined3(USD, Text("x"), Text("2")),
            Joined3(USD, Text("2"), Text("x"))}

RangeRequests ==
    {[EmptyRequest EXCEPT !.release_year_range = y] : y \in ListsUpTo(YearRaws, MaxRanges)}
      \cup {[EmptyRequest EXCEPT !.price_range = p] : p \in ListsUpTo(PriceRaws, MaxRanges)}

RangeSettings == {Unset, [PREFERRED_CURRENCY_CODE |-> {EUR}]}

Priced(status, release_year, prices) == Item(status, 1, {}, {}, {}, {}, release_year, prices)

RangeCatalogs ==
    {Catalog(<<Priced(PUBLISHED, {1}, {ItemPrice(USD, 1, "origin")}),
               Priced(PUBLISHED, {2}, {ItemPrice(USD, 2, "origin")}),
               Priced(PUBLISHED, {3}, {ItemPrice(USD, 3, "origin")}),
               Priced(PUBLISHED, {}, {ItemPrice(EUR, 2, "origin")}),
               Priced(PUBLISHED, {2}, {ItemPrice(USD, 1, "origin"),
                                        ItemPrice(USD, 3, "manual")}),
               Priced(PUBLISHED, {3}, {ItemPrice(EUR, 1, "origin"),
                                        ItemPrice(USD, 3, "converted")})>>,
             "brand" :> 1, <<>>, <<>>, <<>>),
     Catalog(<<Priced(PUBLISHED, {}, {}),
               Priced(PUBLISHED, {3}, {ItemPrice(EUR, 2, "origin"),
                                        ItemPrice(USD, 2, "converted")}),
               Priced(PUBLISHED, {1}, {ItemPrice(EUR, 3, "origin")})>>,
             "brand" :> 1, <<>>, <<>>, <<>>)}

InitRange ==
    /\ catalog \in RangeCatalogs
    /\ settings \in RangeSettings
    /\ request \in RangeRequests
    /\ response = {}
    /\ NoModeration

SpecRange == InitRange /\ [][list]_vars

(***************************************************************************)
(* Facets: small catalogs with two categories and their subcategories, two *)
(* styles and three substyles (one without a style), and one catalog with  *)
(* one row more than the cap in every capped dimension; requests select    *)
(* values of one dimension, or a parent and a child                        *)
(***************************************************************************)
\* items in a catalog of the facet scenarios
FacetItems == 2

FacetItemKinds ==
    {Dressed(Item(PUBLISHED, 1, {1}, {1}, {1}, {1}, {2}, {}), {1}, {1}, {1}, {1}),
     Dressed(Item(DRAFT, 2, {2}, {2}, {2}, {2}, {}, {}), {}, {2}, {}, {}),
     Item(PUBLISHED, 2, {2}, {}, {3}, {1, 2}, {}, {})}

FacetRows ==
    [d \in DimensionSet |->
        CASE d = "substyle" -> 3
          [] d \in {"color", "fabric", "feature"} -> 1
          [] OTHER -> 2]

FacetCatalogs ==
    {Catalog(items, FacetRows, <<1, 2>>, <<{1}, {2}, {}>>, <<2, 1>>) :
        items \in [1..FacetItems -> FacetItemKinds]}

\* one row more than the cap (or than two) in every dimension, every row
\* carried by the first published item, one item more than the default page
CappedRows ==
    [d \in DimensionSet |->
        CASE d = "brand" -> BrandCap + 1
          [] d = "tag" -> TagCap + 1
          [] d = "color" -> ColorCap + 1
          [] d = "collection" -> CollectionCap + 1
          [] d = "fabric" -> FabricCap + 1
          [] d = "feature" -> FeatureCap + 1
          [] OTHER -> 2]

CappedCatalog ==
    Catalog([i \in 1..(DefaultLimit + 1) |->
                IF i = 1
                THEN Dressed(Item(PUBLISHED, 1, {1}, {1}, {1}, 1..CappedRows["tag"], {}, {}),
                             1..CappedRows["color"], 1..CappedRows["collection"],
                             1..CappedRows["fabric"], 1..CappedRows["feature"])
                ELSE Item(PUBLISHED, ((i - 1) % CappedRows["brand"]) + 1,
                          {}, {}, {}, {}, {}, {})],
            CappedRows, <<1, 2>>, <<{1}, {2}>>,
            [r \in 1..CappedRows["collection"] |-> 1])

\* the identifiers a request of this scenario selects in dimension d
FacetIds(cat, d) == {IdText(1), IdText(2), IdText(cat.rows[d])}

FacetRequests(cat) ==
    UNION {{[EmptyRequest EXCEPT ![d] = v] : v \in ListsUpTo(FacetIds(cat, d), MaxValues)} :
              d \in DimensionSet}
      \cup {[EmptyRequest EXCEPT !.category = <<c>>, !.subcategory = <<v>>] :
                c \in FacetIds(cat, "category"), v \in FacetIds(cat, "subcategory")}
      \cup {[EmptyRequest EXCEPT !.style = <<c>>, !.substyle = <<v>>] :
                c \in FacetIds(cat, "style"), v \in FacetIds(cat, "substyle")}

InitFacet ==
    /\ catalog \in FacetCatalogs \cup {CappedCatalog}
    /\ settings = Unset
    /\ request \in FacetRequests(catalog)
    /\ response = {}
    /\ NoModeration

SpecFacet == InitFacet /\ [][list]_vars

\* the requests that select nothing or one value of one dimension
SingleSelections(cat) ==
    {EmptyRequest}
      \cup UNION {{[EmptyRequest EXCEPT ![d] = <<v>>] : v \in FacetIds(cat, d)} :
                     d \in DimensionSet}

\* the small catalogs, with nothing, one value, or a parent and a child selected
InitCounts ==
    /\ catalog \in FacetCatalogs
    /\ settings = Unset
    /\ request \in SingleSelections(catalog)
          \cup {[EmptyRequest EXCEPT !.category = <<c>>, !.subcategory = <<v>>] :
                    c \in FacetIds(catalog, "category"),
                    v \in FacetIds(catalog, "subcategory")}
          \cup {[EmptyRequest EXCEPT !.style = <<c>>, !.substyle = <<v>>] :
                    c \in FacetIds(catalog, "style"),
                    v \in FacetIds(catalog, "substyle")}
    /\ response = {}
    /\ NoModeration

SpecCounts == InitCounts /\ [][list]_vars

(***************************************************************************)
(* Malformed values: a limit that is no number, tag values that are no     *)
(* UUID, a measurement bound that is no number, range values without a     *)
(* parsable bound                                                          *)
(***************************************************************************)
MalformedCatalogs ==
    {Catalog(<<Measured(Item(PUBLISHED, 1, {}, {}, {}, {1}, {2},
                             {ItemPrice(USD, 2, "origin")}),
                        {ItemMeasurement({3}, {}, {}, {})}),
               Measured(Item(PUBLISHED, 1, {}, {}, {}, {2}, {}, {}),
                        {ItemMeasurement({1}, {}, {}, {})})>>,
             ("brand" :> 1) @@ ("tag" :> 2), <<>>, <<>>, <<>>),
     Catalog(<<Item(PUBLISHED, 1, {}, {}, {}, {1, 2}, {}, {})>>,
             ("brand" :> 1) @@ ("tag" :> 2), <<>>, <<>>, <<>>)}

MalformedRequests ==
    {[EmptyRequest EXCEPT !.limit = l, !.tag = t, !.measurement["bust_min"] = m,
                          !.release_year_range = y, !.price_range = p] :
        l \in {{}, {Text("x")}, {Text("1")}},
        t \in ListsUpTo({IdText(1), Text("x")}, MaxValues),
        m \in {NoValues, <<Text("x")>>, <<Text("2")>>},
        y \in {NoValues, <<Text("x")>>},
        p \in {NoValues, <<Joined(USD, COLON, Text("x"))>>}}

InitMalformed ==
    /\ catalog \in MalformedCatalogs
    /\ settings = Unset
    /\ request \in MalformedRequests
    /\ response = {}
    /\ NoModeration

SpecMalformed == InitMalformed /\ [][list]_vars

(***************************************************************************)
(* Chips: a search text, identifiers of every dimension (repeated, in      *)
(* either order, one of them naming no row), two measurement bounds and    *)
(* repeated range values, on one catalog                                   *)
(***************************************************************************)
ChipCatalog ==
    Catalog(<<Named(Measured(Dressed(Item(PUBLISHED, 1, {1}, {1}, {1}, {1}, {2},
                                          {ItemPrice(USD, 2, "origin")}),
                                     {1}, {1}, {1}, {1}),
                             {ItemMeasurement({3}, {}, {}, {2})}),
                    {<<"A", "b">>}),
              Item(PUBLISHED, 2, {}, {}, {}, {}, {}, {})>>,
            [d \in DimensionSet |-> IF d = "brand" THEN 2 ELSE 1],
            <<1>>, <<{1}>>, <<1>>)

\* a request that selects row 1 in every dimension but brand and tag
RestSelected ==
    [EmptyRequest EXCEPT !.category = <<IdText(1)>>, !.subcategory = <<IdText(1)>>,
                         !.style = <<IdText(1)>>, !.substyle = <<IdText(1)>>,
                         !.color = <<IdText(1)>>, !.collection = <<IdText(1)>>,
                         !.fabric = <<IdText(1)>>, !.feature = <<IdText(1)>>]

ChipRequests ==
    {[rest EXCEPT !.q = q, !.brand = b, !.tag = t,
                  !.measurement["bust_min"] = m, !.measurement["length_max"] = n,
                  !.release_year_range = y, !.price_range = p] :
        rest \in {EmptyRequest, RestSelected},
        q \in {NoValues, <<Text("a")>>},
        b \in ListsUpTo({IdText(1), IdText(2)}, MaxValues),
        t \in {NoValues, <<IdText(1)>>, <<IdText(2), IdText(1)>>},
        m \in {NoValues, <<<<"0", "2">>>>},
        n \in {NoValues, <<Text("3")>>},
        y \in ListsUpTo({Joined(Text("1"), COLON, Text("3")),
                         Joined(EmptyStr, COLON, Text("3"))}, MaxRanges)
                 \cup {<<Joined(EmptyStr, COLON, Text("3")),
                         Joined(Text("1"), COLON, Text("3")),
                         Joined(EmptyStr, COLON, Text("3"))>>},
        p \in {NoValues, <<Joined3(USD, Text("1"), Text("3"))>>,
               <<Joined3(USD, Text("1"), Text("3")), Joined3(USD, Text("1"), Text("3"))>>}}

InitChips ==
    /\ catalog = ChipCatalog
    /\ settings = Unset
    /\ request \in ChipRequests
    /\ response = {}
    /\ NoModeration

SpecChips == InitChips /\ [][list]_vars

(***************************************************************************)
(* Properties of the list response                                         *)
(***************************************************************************)
PublishedItems(cat) == {i \in DOMAIN cat.items : cat.items[i].status = PUBLISHED}

\* the items that match the filters of the request
Matching(cat, stg, req) == Members(filter_queryset(cat, stg, req))

NoIdentifierFilter(req) == \A d \in DimensionSet : req[d] = NoValues

NoRangeFilter(req) == req.release_year_range = NoValues /\ req.price_range = NoValues

\* the limit the request gives, when it gives a number
GivenLimit(req) == UNION {ParseNumber(t) : t \in req.limit}

Smaller(a, b) == IF a < b THEN a ELSE b

\* the identifier texts item i carries in dimension d
CarriedTexts(cat, i, d) ==
    {JoinedText(cat, d, r) : r \in JoinedRows(cat, cat.items[i], d)}

\* the identifier texts of dimension d that name a row of the catalog
KnownTexts(cat, d) == {IdText(k) : k \in 1..cat.rows[d]}

\* C3: for a request without filter parameters result_count is the number of
\* PUBLISHED items, and no draft, pending_review or archived item is returned.
C3_UnfilteredCountIsPublishedCount ==
    \A r \in response :
        NoIdentifierFilter(request) /\ NoRangeFilter(request) =>
            /\ r.result_count = Cardinality(PublishedItems(catalog))
            /\ Range(r.results) \subseteq PublishedItems(catalog)

\* C4: with limit = N > 0 the page holds min(N, M) items and result_count is
\* M, the number of distinct matching items, whatever the limit is.
C4_LimitKeepsFullCount ==
    \A r \in response : \A n \in GivenLimit(request) :
        n > 0 =>
            LET M == Cardinality(Matching(catalog, settings, request))
            IN  /\ Len(r.results) = Smaller(n, M)
                /\ r.result_count = M
                /\ \A l \in {{}, {Text("1")}, {Text("2")}, {Text("0")}} :
                      total_count(catalog, settings, [request EXCEPT !.limit = l])
                          = r.result_count

\* C4 witness: a page cut short by the limit
C4_Witness ==
    \E r \in response : \E n \in GivenLimit(request) :
        n > 0 /\ Len(r.results) = n /\ r.result_count > n

\* C5: an item is in the result set iff, for every dimension with a selected
\* value, it carries at least one of the selected values, the selected values
\* being all the values of the repeated parameter, as echoed in `selected`
\* (each submitted value here is one identifier of the catalog).
C5_OrWithinAndAcrossDimensions ==
    \A r \in response :
        /\ NoRangeFilter(request) /\ request.limit = {}
        /\ \A d \in DimensionSet : Range(request[d]) \subseteq KnownTexts(catalog, d)
        =>
            \A i \in DOMAIN catalog.items :
                i \in Range(r.results) <=>
                    \A d \in DimensionSet :
                        r.selected[d] # <<>> =>
                            CarriedTexts(catalog, i, d) \cap Range(r.selected[d]) # {}

\* C6 as stated: one more selected identifier in a dimension (one more value
\* of the repeated parameter) never increases result_count.
C6_OneMoreIdentifierNeverIncreases ==
    \A r \in response : \A d \in DimensionSet : \A v \in KnownTexts(catalog, d) :
        total_count(catalog, settings, [request EXCEPT ![d] = Append(@, v)])
            <= r.result_count

\* C6 amended: the first identifier selected in a dimension that had none
\* selected never increases result_count.
C6_FirstIdentifierNeverIncreases ==
    \A r \in response : \A d \in DimensionSet : \A v \in KnownTexts(catalog, d) :
        request[d] = NoValues =>
            total_count(catalog, settings, [request EXCEPT ![d] = <<v>>])
                <= r.result_count

\* C6 witness: a first identifier that does narrow an already filtered result
C6_Witness ==
    \E r \in response : \E d \in DimensionSet : \E v \in KnownTexts(catalog, d) :
        /\ request[d] = NoValues
        /\ ~NoIdentifierFilter(request)
        /\ r.result_count > 1
        /\ total_count(catalog, settings, [request EXCEPT ![d] = <<v>>])
               < r.result_count

\* C10: no item occurs twice in results and result_count counts every
\* matching item once, also when it matches several selected values, several
\* of its prices match or several range entries match.
C10_ResultsAreDistinct ==
    \A r \in response :
        /\ \A j, k \in 1..Len(r.results) : j # k => r.results[j] # r.results[k]
        /\ r.result_count = Cardinality(Matching(catalog, settings, request))

\* C10 witness: a returned item that carries two of the substyles looked up
\* and has two prices inside two submitted price ranges
C10_Witness ==
    \E r \in response : \E i \in Range(r.results) :
        /\ Cardinality({t \in catalog.items[i].substyles :
                           IdText(t) \in InTokens(request.substyle)}) > 1
        /\ Len(PriceClauses(settings, request.price_range)) > 1
        /\ Cardinality({p \in catalog.items[i].prices :
               \A k \in 1..Len(PriceClauses(settings, request.price_range)) :
                   PriceRowMatches(PriceClauses(settings, request.price_range)[k],
                                   catalog.items[i], p)}) > 1
        /\ Len(ReleaseClauses(request.release_year_range)) > 1

\* the value_keys of a list of echoed entries or chips, in order
Keys(entries) == [k \in 1..Len(entries) |-> entries[k].value_key]

\* the chips of one query parameter, in order
ChipsOf(r, param) ==
    LET Is(chip) == chip.param = param
    IN  SelectSeq(r.active_filters, Is)

\* C2: every accepted release_year_range or price_range value (at least one
\* of its bounds parses) comes back in `selected` and in its active_filters
\* chip with a value_key equal to the submitted string, character for
\* character, in every accepted form.
C2_RangeKeysEqualRawValues ==
    \A r \in response :
        LET YearAccepted(raw) == HasBound(ReleaseEntry(raw))
            PriceAccepted(raw) == HasBound(PriceEntry(settings, raw))
            years == SelectSeq(request.release_year_range, YearAccepted)
            prices == SelectSeq(request.price_range, PriceAccepted)
        IN  /\ Keys(r.selected.release_year_ranges) = years
            /\ Keys(ChipsOf(r, "release_year_range")) = years
            /\ Keys(r.selected.price_ranges) = prices
            /\ Keys(ChipsOf(r, "price_range")) = prices

\* C7: with release_year_range values submitted (and nothing else), an item
\* is returned iff its release year lies within the inclusive bounds of at
\* least one kept entry, a bare value giving a lower bound only; entries of
\* which neither side parses are ignored, and with no entry kept every item
\* is returned.
C7_ReleaseYearRangesAreOred ==
    \A r \in response :
        request.release_year_range # NoValues /\ request.price_range = NoValues =>
            LET kept == ReleaseClauses(request.release_year_range)
            IN  \A i \in DOMAIN catalog.items :
                    i \in Range(r.results) <=>
                        \/ Len(kept) = 0
                        \/ \E y \in catalog.items[i].release_year :
                              \E k \in 1..Len(kept) : InBounds(kept[k], y)

\* C8: with price_range values submitted (and nothing else), an item is
\* returned iff, for at least one kept (currency, min, max) entry, one single
\* price record of the item is in that currency and within those bounds; with
\* no entry kept every item is returned.
C8_PriceRangeNeedsOneRecord ==
    \A r \in response :
        request.price_range # NoValues /\ request.release_year_range = NoValues =>
            LET kept == PriceClauses(settings, request.price_range)
            IN  \A i \in DOMAIN catalog.items :
                    i \in Range(r.results) <=>
                        \/ Len(kept) = 0
                        \/ \E k \in 1..Len(kept) :
                              \E price \in catalog.items[i].prices :
                                  PriceRowMatches(kept[k], catalog.items[i], price)

\* C9: a single price_range value of at most three fields with an empty
\* currency token.  When one of its numeric sides parses it is echoed once,
\* in the preferred currency (the configured one, when one is configured),
\* and the items returned are those with a price record in the echoed
\* currency within the bounds; when neither side parses nothing is echoed and
\* every item is returned.
C9_EmptyCurrencyIsPreferredCurrency ==
    \A r \in response : \A raw \in Range(request.price_range) :
        /\ request.price_range = <<raw>>
        /\ Len(Split(raw, COLON)) <= 3
        /\ PriceParts(raw).currency_part = EmptyStr
        =>
            LET sides == [min |-> ParseNumber(PriceParts(raw).min_part),
                          max |-> ParseNumber(PriceParts(raw).max_part)]
                echoed == r.selected.price_ranges
            IN  IF HasBound(sides)
                THEN /\ Len(echoed) = 1
                     /\ \A c \in settings.PREFERRED_CURRENCY_CODE :
                           echoed[1].currency = c
                     /\ \A i \in DOMAIN catalog.items :
                           i \in Range(r.results) <=>
                               \E price \in catalog.items[i].prices :
                                   /\ price.currency = echoed[1].currency
                                   /\ InBounds(sides, price.amount)
                ELSE /\ echoed = <<>>
                     /\ Range(r.results) = DOMAIN catalog.items

\* the identifiers of a list of options
Ids(options) == {options[k].id : k \in 1..Len(options)}

\* the option lists of the flat dimensions
FlatOptions(r, d) ==
    CASE d = "brand" -> r.filters.brands    [] d = "category" -> r.filters.categories
      [] d = "style" -> r.filters.styles    [] d = "tag" -> r.filters.tags
      [] d = "color" -> r.filters.colors    [] d = "collection" -> r.filters.collections
      [] d = "fabric" -> r.filters.fabrics  [] d = "feature" -> r.filters.features

\* the option of parent identifier `parent` lists a child with identifier v
Nested(options, parent, v) ==
    \E k \in 1..Len(options) : options[k].id = parent /\ v \in Ids(options[k].children)

\* the value v selected in dimension d has an option in the dimension's
\* list, under the option of its parent for a subcategory or a substyle
Listed(cat, r, d, v) ==
    CASE d = "subcategory" ->
            \A row \in RowOf(cat, d, v) :
                Nested(r.filters.categories, IdText(cat.subcategory_category[row]), v)
      [] d = "substyle" ->
            \A row \in RowOf(cat, d, v) : \A st \in cat.substyle_style[row] :
                Nested(r.filters.styles, IdText(st), v)
      [] OTHER -> v \in Ids(FlatOptions(r, d))

\* C1: every selected value that names a row of its dimension has an option
\* in that dimension's option list (a subcategory under its category, a
\* substyle that has a style under that style), whatever its item_count and
\* wherever the cap of the list falls.
C1_SelectedValuesStayListed ==
    \A r \in response : \A d \in DimensionSet :
        \A v \in Range(r.selected[d]) \cap KnownTexts(catalog, d) :
            Listed(catalog, r, d, v)

\* the request without its malformed values: a limit that is no integer,
\* identifiers that are no UUID, measurement bounds that are no number and
\* range values of which no bound parses
WellFormedPart(stg, req) ==
    LET Numeric(v) == ParseNumber(v) # {}
        YearKept(raw) == HasBound(ReleaseClause(raw))
        PriceKept(raw) == PriceClauseKept(PriceClause(stg, raw))
    IN  [f \in DOMAIN req |->
            CASE f = "limit" -> {t \in req.limit : Numeric(t)}
              [] f \in UUIDDimensions -> SelectSeq(req[f], IsUUID)
              [] f = "measurement" ->
                    [key \in MeasurementKeySet |->
                        SelectSeq(req.measurement[key], Numeric)]
              [] f = "release_year_range" -> SelectSeq(req[f], YearKept)
              [] f = "price_range" -> SelectSeq(req[f], PriceKept)
              [] OTHER -> req[f]]

\* C11: whatever the query string, the list request is answered with status
\* 200 and with the results and the result_count of the same request without
\* its malformed values.
C11_MalformedValuesAreIgnored ==
    \A r \in response :
        /\ r.status_code = 200
        /\ LET clean == Respond(catalog, settings, WellFormedPart(settings, request))
           IN  r.results = clean.results /\ r.result_count = clean.result_count

\* the dimensions whose options carry an item_count
CountedDimensions == DimensionSet \ {"collection"}

\* the options a response lists for dimension d, nested ones included
OptionsOf(r, d) ==
    CASE d = "subcategory" ->
            UNION {Range(c.children) : c \in Range(r.filters.categories)}
      [] d = "substyle" ->
            UNION {Range(c.children) : c \in Range(r.filters.styles)}
      [] OTHER -> Range(FlatOptions(r, d))

\* C12: the item_count of every facet option is the number of distinct
\* PUBLISHED items that carry the option's value, whatever is selected: the
\* responses to requests with other selections on the same catalog give the
\* same item_count to every option they share.
C12_ItemCountIgnoresSelection ==
    \A r \in response :
        /\ \A d \in CountedDimensions : \A o \in OptionsOf(r, d) :
              o.item_count =
                  Cardinality({i \in PublishedItems(catalog) :
                                  o.id \in CarriedTexts(catalog, i, d)})
        /\ \A other \in SingleSelections(catalog) :
              LET r2 == Respond(catalog, settings, other)
              IN  \A d \in CountedDimensions :
                      \A o \in OptionsOf(r, d) : \A o2 \in OptionsOf(r2, d) :
                          o2.id = o.id => o2.item_count = o.item_count

\* C12 witness: a selection that narrows the results below the item_count of
\* a listed option, next to a selected option without published items
C12_Witness ==
    \E r \in response : \E d \in CountedDimensions :
        /\ ~NoIdentifierFilter(request)
        /\ \E o \in OptionsOf(r, d) : o.item_count > r.result_count
        /\ \E o \in OptionsOf(r, d) : o.selected /\ o.item_count = 0

\* the values submitted under the query parameter named param
SubmittedTokens(req, param) ==
    IF param \in {"q", "release_year_range", "price_range"} \cup DimensionSet
    THEN Range(req[param])
    ELSE UNION {Range(req.measurement[key]) :
                   key \in {k \in MeasurementKeySet : "measurement_" \o k = param}}

\* C13: every chip of active_filters, the search chip included, has the four
\* fields label, value, param and value_key, and its value_key is a value
\* that was submitted under the chip's parameter.
C13_ChipsCarrySubmittedTokens ==
    \A r \in response : \A k \in 1..Len(r.active_filters) :
        LET chip == r.active_filters[k]
        IN  /\ DOMAIN chip = {"label", "value", "param", "value_key"}
            /\ chip.value_key \in SubmittedTokens(request, chip.param)

\* the positions of the chips of parameter param that carry value_key key
ChipPositions(r, param, key) ==
    {k \in 1..Len(r.active_filters) :
        /\ r.active_filters[k].param = param
        /\ "value_key" \in DOMAIN r.active_filters[k]
        /\ r.active_filters[k].value_key = key}

\* C14: active_filters holds one chip per distinct selected value: a value
\* submitted twice, an identifier or a range, has a single chip, and no two
\* chips share their (param, value_key) pair.
C14_OneChipPerDistinctValue ==
    \A r \in response :
        /\ \A d \in DimensionSet : \A v \in Range(r.selected[d]) \cap KnownTexts(catalog, d) :
              Cardinality(ChipPositions(r, d, v)) = 1
        /\ \A k \in 1..Len(r.selected.release_year_ranges) :
              Cardinality(ChipPositions(r, "release_year_range",
                                        r.selected.release_year_ranges[k].value_key)) = 1
        /\ \A k \in 1..Len(r.selected.price_ranges) :
              Cardinality(ChipPositions(r, "price_range",
                                        r.selected.price_ranges[k].value_key)) = 1

\* the place of a chip's dimension in the fixed order of the chips
ChipOrder == <<"q", "brand", "category", "subcategory", "style", "substyle",
               "tag", "color", "fabric", "feature", "collection", "measurement",
               "release_year_range", "price_range">>

ChipRank(param) ==
    LET name == IF param \in {"measurement_" \o key : key \in MeasurementKeySet}
                THEN "measurement" ELSE param
    IN  CHOOSE k \in 1..Len(ChipOrder) : ChipOrder[k] = name

\* the place of the first occurrence of v in values
FirstPosition(values, v) ==
    CHOOSE k \in 1..Len(values) :
        values[k] = v /\ \A j \in 1..(k - 1) : values[j] # v

\* C15: the chips come in the fixed order of the dimensions (search text,
\* brand, category, subcategory, style, substyle, tag, color, fabric, feature,
\* collection, measurement, release-year ranges, price ranges), and the chips
\* of one identifier or range parameter in the order in which their values
\* were first submitted.
C15_ChipsInFixedOrder ==
    \A r \in response : \A j, k \in 1..Len(r.active_filters) :
        j < k =>
            LET a == r.active_filters[j]
                b == r.active_filters[k]
            IN  /\ ChipRank(a.param) <= ChipRank(b.param)
                /\ a.param = b.param /\ a.param \in DimensionSet =>
                      FirstPosition(request[a.param], a.value_key)
                          < FirstPosition(request[a.param], b.value_key)
                /\ a.param = b.param
                      /\ a.param \in {"release_year_range", "price_range"} =>
                      FirstPosition(request[a.param], a.value_key)
                          <= FirstPosition(request[a.param], b.value_key)


(***************************************************************************)
(* The same list request sent twice.  One or two items that carry either   *)
(* or both of two colors and a USD or a EUR price; the two colors have     *)
(* different names or the same name (Color is unique on name and hex_code  *)
(* together); PREFERRED_CURRENCY_CODE unset, as in config/settings.py, or  *)
(* set.                                                                    *)
(***************************************************************************)
RepeatItemKinds ==
    {Dressed(Item(status, 1, {}, {}, {}, {}, {}, {ItemPrice(code, 1, "origin")}),
             colors, {}, {}, {}) :
        status \in {PUBLISHED}, code \in {USD, EUR}, colors \in {{1}, {2}, {1, 2}}}
    \cup {Item(DRAFT, 1, {}, {}, {}, {}, {}, {ItemPrice(EUR, 2, "origin")})}

RepeatRows == [d \in DimensionSet |-> IF d = "color" THEN 2 ELSE 1]

RepeatCatalogs ==
    {Renamed(Catalog(items, RepeatRows, <<1>>, <<{1}>>, <<1>>), "color", names) :
        items \in UNION {[1..n -> RepeatItemKinds] : n \in 1..2},
        names \in {<<1, 2>>, <<1, 1>>}}

RepeatRequests ==
    {EmptyRequest, [EmptyRequest EXCEPT !.color = <<IdText(2)>>]}

InitRepeat ==
    /\ catalog \in RepeatCatalogs
    /\ settings \in RangeSettings
    /\ request \in RepeatRequests
    /\ response = {}
    /\ NoModeration

\* GET /items/ once more: the same query string, the catalog unchanged
list_again ==
    /\ response # {}
    /\ \E scan \in ScanOrders :
          response' = {Respond(Scanned(catalog, scan), settings, request)}
    /\ UNCHANGED <<catalog, settings, request, moderation, uploads>>

NextRepeat == list \/ list_again

SpecRepeat == InitRepeat /\ [][NextRepeat]_vars

\* C16: a list request repeated with the same query parameters on the
\* unchanged catalog is answered with the same results, filters and
\* active_filters as before.
C16_RepeatedListIsIdentical ==
    [][\A r \in response : \A again \in response' :
           /\ again.results = r.results
           /\ again.filters = r.filters
           /\ again.active_filters = r.active_filters]_vars

\* the part of C16 that the code keeps: the order of the results, the
\* selected echo and the chips do not depend on how the database breaks ties
RepeatKeepsResults ==
    [][\A r \in response : \A again \in response' :
           /\ again.results = r.results
           /\ again.selected = r.selected
           /\ again.active_filters = r.active_filters]_vars

(***************************************************************************)
(* The limit of a list request.  Catalogs of about DefaultLimit items of   *)
(* two brands, all published or one of them a draft; the limit absent,     *)
(* empty, not a number, zero, negative or positive; no brand or one brand  *)
(* selected.                                                               *)
(***************************************************************************)
LimitSizes == (DefaultLimit - 1)..(DefaultLimit + 2)

LimitCatalogs ==
    {Catalog([i \in 1..n |->
                 Item(IF i = draft THEN DRAFT ELSE PUBLISHED, (i % 2) + 1,
                      {}, {}, {}, {}, {}, {})],
             [d \in DimensionSet |-> IF d = "brand" THEN 2 ELSE 1],
             <<1>>, <<{1}>>, <<1>>) :
        n \in LimitSizes, draft \in {0, 1, 2}}

LimitParams ==
    {{}, {EmptyStr}, {Text("x")}, {<<"1", ".", "5">>}, {Text("0")}, {<<"-", "1">>},
     {Text("2")}, {<<"6", "1">>}}

LimitRequests ==
    {[EmptyRequest EXCEPT !.limit = l, !.brand = b] :
        l \in LimitParams, b \in {NoValues, <<IdText(1)>>, <<IdText(2)>>}}

InitLimit ==
    /\ catalog \in LimitCatalogs
    /\ settings = Unset
    /\ request \in LimitRequests
    /\ response = {}
    /\ NoModeration

SpecLimit == InitLimit /\ [][list]_vars

\* C17: with the limit absent, empty or not an integer the list returns the
\* first 60 matching items (all of them when there are fewer), so at most 60;
\* with an integer limit <= 0 it returns all matching items; result_count is
\* the full match count in every case.
C17_DefaultLimitAndNoLimit ==
    \A r \in response :
        LET M == Cardinality(Matching(catalog, settings, request))
        IN  /\ r.status_code = 200
            /\ r.result_count = M
            /\ GivenLimit(request) = {} =>
                  /\ Len(r.results) <= DefaultLimit
                  /\ Len(r.results) = Smaller(DefaultLimit, M)
            /\ \A n \in GivenLimit(request) :
                  n <= 0 =>
                      /\ Len(r.results) = M
                      /\ Range(r.results) = Matching(catalog, settings, request)

\* C17 witness: more than 60 items match and a limit of -1 returns them all
C17_Witness ==
    \E r \in response :
        /\ request.limit = {<<"-", "1">>}
        /\ Len(r.results) > DefaultLimit
        /\ r.result_count = Len(r.results)

\* more than 60 items match and a limit that is no integer returns 60 of them
DefaultLimitCuts ==
    \E r \in response :
        /\ request.limit = {<<"1", ".", "5">>}
        /\ Len(r.results) = DefaultLimit
        /\ r.result_count > DefaultLimit

(***************************************************************************)
(* Reviews and submissions: ItemReviewListCreateView,                      *)
(* ItemReviewModerateView, PublicUserReviewListView,                       *)
(* PublicUserSubmissionListView and the create side of the submission      *)
(* viewsets.  Requests are served one at a time (ATOMIC_REQUESTS); the     *)
(* request being served is kept in `request`, its answer in `response`,    *)
(* until the answer is sent.                                               *)
(***************************************************************************)
\* ItemReview.ModerationStatus
PENDING == "pending"
APPROVED == "approved"
REJECTED == "rejected"

\* ItemSubmission.SubmissionStatus (DRAFT, PENDING, APPROVED and REJECTED as above)
UNDER_REVIEW == "under_review"

\* the texts a moderator submits for the two statuses a review can be given
ApprovedText == <<"a", "p", "p", "r", "o", "v", "e", "d">>
RejectedText == <<"r", "e", "j", "e", "c", "t", "e", "d">>
PendingText == <<"p", "e", "n", "d", "i", "n", "g">>

\* the accounts: two members, one staff member, and a request without credentials
Users == {"alice", "bob"}
Staff == {"moderator"}
Anonymous == "anonymous"
Accounts == Users \cup Staff

\* most writes (reviews and submissions created, reviews moderated) in a run
MaxClock == 3

\* a value of request.data: a missing key, a text or a JSON number
Absent == [kind |-> "absent"]
Str(text) == [kind |-> "str", text |-> text]
Num(n) == [kind |-> "number", n |-> n]

RECURSIVE LStrip(_)
LStrip(s) == IF Len(s) > 0 /\ s[1] = " " THEN LStrip(Tail(s)) ELSE s

RECURSIVE RStrip(_)
RStrip(s) == IF Len(s) > 0 /\ s[Len(s)] = " " THEN RStrip(SubSeq(s, 1, Len(s) - 1)) ELSE s

\* str.strip()
Strip(s) == RStrip(LStrip(s))

\* (request.data.get(key) or ""): the empty text for a missing key, an empty
\* text and the number 0
OrEmpty(value) ==
    CASE value.kind = "absent" -> Str(EmptyStr)
      [] value.kind = "number" /\ value.n = 0 -> Str(EmptyStr)
      [] OTHER -> value

\* .strip() on (value or ""): an AttributeError when the value is a number
StripRaises(value) == OrEmpty(value).kind # "str"

\* next_status in {ModerationStatus.APPROVED, ModerationStatus.REJECTED}
NextStatus(text) ==
    IF text = ApprovedText THEN {APPROVED}
    ELSE IF text = RejectedText THEN {REJECTED}
    ELSE {}

\* ItemReview.objects.create(item, author, recommendation, body, status=PENDING)
ItemReview(item, author, images, created_at) ==
    [item |-> item, author |-> author, status |-> PENDING, images |-> images,
     moderation_note |-> EmptyStr, moderated_by |-> {}, moderated_at |-> {},
     created_at |-> created_at]

\* ItemSubmission row
ItemSubmission(user, status) ==
    [user |-> user, status |-> status, title |-> "", updated_at |-> 0,
     deleted |-> FALSE]

\* a slip: reviews awaiting moderation do not block a new review
pending_existsNever(table, author) == FALSE

\* ItemReview.objects.filter(author=request.user, status=PENDING).exists()
pending_exists(table, author) ==
    \E k \in DOMAIN table : table[k].author = author /\ table[k].status = PENDING

\* ItemReview.objects.filter(item=item, author=request.user).exists()
already_reviewed(table, item, author) ==
    \E k \in DOMAIN table : table[k].item = item /\ table[k].author = author

\* the answer of a view whose permission check fails: 401 or 403, by the
\* authentication classes in use
Denied == {401, 403}

\* ItemReviewListCreateView.create
create(actor, slug, images, recommendation) ==
    /\ response = {}
    /\ request' = [endpoint |-> "item-review-list-create", method |-> "POST",
                   user |-> actor, slug |-> slug, images |-> images,
                   recommendation |-> recommendation]
    /\ IF actor = Anonymous
       THEN /\ \E code \in Denied : response' = {[status_code |-> code]}
            /\ UNCHANGED <<reviews, now>>
       ELSE IF slug \notin DOMAIN catalog.items
       THEN response' = {[status_code |-> 404]} /\ UNCHANGED <<reviews, now>>
       ELSE IF pending_exists(reviews, actor) \/ already_reviewed(reviews, slug, actor)
       THEN response' = {[status_code |-> 409]} /\ UNCHANGED <<reviews, now>>
       ELSE IF images = 0 \/ recommendation \notin {"recommend", "not_recommend", "mixed"}
       THEN response' = {[status_code |-> 400]} /\ UNCHANGED <<reviews, now>>
       ELSE /\ now < MaxClock
            /\ now' = now + 1
            /\ reviews' = Append(reviews, ItemReview(slug, actor, images, now + 1))
            /\ response' = {[status_code |-> 201, id |-> Len(reviews) + 1,
                             status |-> PENDING]}
    /\ UNCHANGED <<catalog, settings, submissions, uploads>>

\* ItemReviewModerateView.patch
patch(actor, pk, data) ==
    /\ response = {}
    /\ request' = [endpoint |-> "item-review-moderate", method |-> "PATCH",
                   user |-> actor, pk |-> pk, data |-> data]
    /\ IF actor \notin Staff
       THEN /\ \E code \in (IF actor = Anonymous THEN Denied ELSE {403}) :
                  response' = {[status_code |-> code]}
            /\ UNCHANGED <<reviews, now>>
       ELSE IF pk \notin DOMAIN reviews
       THEN response' = {[status_code |-> 404]} /\ UNCHANGED <<reviews, now>>
       ELSE IF StripRaises(data.status) \/ StripRaises(data.moderation_note)
       THEN response' = {[status_code |-> 500]} /\ UNCHANGED <<reviews, now>>
       ELSE LET next_status == NextStatus(Lower(Strip(OrEmpty(data.status).text)))
                note == Strip(OrEmpty(data.moderation_note).text)
            IN  IF next_status = {}
                THEN response' = {[status_code |-> 400]} /\ UNCHANGED <<reviews, now>>
                ELSE /\ now < MaxClock
                     /\ now' = now + 1
                     /\ reviews' = [reviews EXCEPT ![pk] =
                                       [@ EXCEPT !.status = CHOOSE st \in next_status : TRUE,
                                                 !.moderation_note = note,
                                                 !.moderated_by = {actor},
                                                 !.moderated_at = {now + 1}]]
                     /\ response' = {[status_code |-> 200, id |-> pk,
                                      status |-> reviews'[pk].status]}
    /\ UNCHANGED <<catalog, settings, submissions, uploads>>

\* ItemReviewSerializer / UserSubmissionSummarySerializer: the fields the
\* claims read
Serialized(table, k) == [id |-> k, status |-> table[k].status]

\* .order_by("-created_at") / .order_by("-updated_at"): the rows kept, the
\* newest first (rows are appended in order of creation)
NewestFirst(table, Keep(_)) ==
    LET kept == SelectSeq([k \in DOMAIN table |-> k], Keep)
    IN  [j \in 1..Len(kept) |-> Serialized(table, kept[Len(kept) + 1 - j])]

\* if limit: queryset[: max(int(limit), 0)], the limit ignored on ValueError
Limited(rows, limit) ==
    IF \E t \in limit : t # EmptyStr /\ ParseNumber(t) # {}
    THEN LET n == CHOOSE m \in UNION {ParseNumber(t) : t \in limit} : TRUE
         IN  Slice(rows, IF n > 0 THEN n ELSE 0)
    ELSE rows

\* a slip: the reviews of the item in every status
ItemReviewsOfAnyStatus(table, item) ==
    LET Keep(k) == table[k].item = item
    IN  NewestFirst(table, Keep)

\* ItemReview.objects.filter(item=item, status=APPROVED).order_by("-created_at")
ItemReviews(table, item) ==
    LET Keep(k) == table[k].item = item /\ table[k].status = APPROVED
    IN  NewestFirst(table, Keep)

\* ItemReview.objects.filter(author=user, status=APPROVED).order_by("-created_at")
UserReviews(table, user) ==
    LET Keep(k) == table[k].author = user /\ table[k].status = APPROVED
    IN  NewestFirst(table, Keep)

\* ItemSubmission.objects.filter(user=user, status=APPROVED).order_by("-updated_at")
UserSubmissions(table, user) ==
    LET Keep(k) ==
            table[k].user = user /\ table[k].status = APPROVED /\ ~table[k].deleted
    IN  NewestFirst(table, Keep)

\* ItemReviewListCreateView.get_queryset (GET)
item_reviews(slug, limit) ==
    /\ response = {}
    /\ request' = [endpoint |-> "item-review-list-create", method |-> "GET",
                   slug |-> slug, limit |-> limit]
    /\ response' = IF slug \notin DOMAIN catalog.items
                   THEN {[status_code |-> 404]}
                   ELSE {[status_code |-> 200,
                          data |-> Limited(ItemReviews(reviews, slug), limit)]}
    /\ UNCHANGED <<catalog, settings, moderation, uploads>>

\* PublicUserReviewListView.get_queryset
public_user_reviews(username, limit) ==
    /\ response = {}
    /\ request' = [endpoint |-> "public-user-reviews", method |-> "GET",
                   username |-> username, limit |-> limit]
    /\ response' = IF username \notin Accounts
                   THEN {[status_code |-> 404]}
                   ELSE {[status_code |-> 200,
                          data |-> Limited(UserReviews(reviews, username), limit)]}
    /\ UNCHANGED <<catalog, settings, moderation, uploads>>

\* PublicUserSubmissionListView.get_queryset
public_user_submissions(username, limit) ==
    /\ response = {}
    /\ request' = [endpoint |-> "public-user-submissions", method |-> "GET",
                   username |-> username, limit |-> limit]
    /\ response' = IF username \notin Accounts
                   THEN {[status_code |-> 404]}
                   ELSE {[status_code |-> 200,
                          data |-> Limited(UserSubmissions(submissions, username), limit)]}
    /\ UNCHANGED <<catalog, settings, moderation, uploads>>

\* ItemSubmissionViewSet.perform_create (status read-only: the model default,
\* PENDING) and SubmissionDraftViewSet.perform_create (DRAFT)
submission_create(actor, status) ==
    /\ response = {}
    /\ request' = [endpoint |-> IF status = DRAFT THEN "submission-draft-list"
                                ELSE "submission-list",
                   method |-> "POST", user |-> actor]
    /\ IF actor = Anonymous
       THEN /\ \E code \in Denied : response' = {[status_code |-> code]}
            /\ UNCHANGED <<submissions, now>>
       ELSE /\ now < MaxClock
            /\ now' = now + 1
            /\ submissions' = Append(submissions, ItemSubmission(actor, status))
            /\ response' = {[status_code |-> 201, id |-> Len(submissions) + 1,
                             status |-> status]}
    /\ UNCHANGED <<catalog, settings, reviews, uploads>>

\* the answer is sent; the next request can be served
finalize_response ==
    /\ response # {}
    /\ request' = [endpoint |-> "none"]
    /\ response' = {}
    /\ UNCHANGED <<catalog, settings, moderation, uploads>>

(***************************************************************************)
(* Scenario: two items, the accounts above; the submission table holds an  *)
(* approved and a pending submission of alice, as the staff left them      *)
(* (submissions are approved outside these endpoints); no review yet.      *)
(***************************************************************************)
ModerationCatalog ==
    Catalog(<<Item(PUBLISHED, 1, {}, {}, {}, {}, {}, {}),
              Item(DRAFT, 1, {}, {}, {}, {}, {}, {})>>,
            [d \in DimensionSet |-> 1], <<1>>, <<{1}>>, <<1>>)

SeedSubmissions ==
    <<ItemSubmission("alice", PENDING), ItemSubmission("alice", APPROVED),
      ItemSubmission("bob", REJECTED)>>

NoRequest == [endpoint |-> "none"]

\* the slug of no item
NoSlug == Len(ModerationCatalog.items) + 1

StatusValues ==
    {Absent, Str(EmptyStr), Str(ApprovedText), Str(RejectedText), Str(PendingText),
     Str(<<" ", "A", "p", "p", "r", "o", "v", "e", "d", " ">>), Num(1)}

\* review-create requests: each user on each item with and without a
\* picture, with a recommendation that is no choice, on a slug of no item,
\* and without credentials
CreateRequests ==
    {[user |-> u, slug |-> k, images |-> n, recommendation |-> "recommend"] :
        u \in Users, k \in DOMAIN ModerationCatalog.items, n \in {0, 1}}
    \cup {[user |-> "alice", slug |-> 1, images |-> 1, recommendation |-> "bogus"],
          [user |-> "alice", slug |-> NoSlug, images |-> 1, recommendation |-> "mixed"],
          [user |-> Anonymous, slug |-> 1, images |-> 1, recommendation |-> "mixed"]}

\* moderate requests on a review or on a key of no review: every status
\* value by the staff user, a note that is a text or a number, and the
\* request of a user who is not staff or has no credentials
ModerateRequests(table) ==
    {[user |-> u, pk |-> pk, data |-> [status |-> st, moderation_note |-> Absent]] :
        u \in Staff, pk \in 1..(Len(table) + 1), st \in StatusValues}
    \cup {[user |-> u, pk |-> pk,
           data |-> [status |-> Str(RejectedText), moderation_note |-> note]] :
             u \in Staff, pk \in DOMAIN table, note \in {Str(<<" ", "o", "k">>), Num(1)}}
    \cup {[user |-> u, pk |-> 1,
           data |-> [status |-> Str(ApprovedText), moderation_note |-> Absent]] :
             u \in {"alice", Anonymous}}

ListLimits == {{}, {Text("1")}, {Text("x")}, {Text("0")}}

InitModeration ==
    /\ catalog = ModerationCatalog
    /\ settings = Unset
    /\ request = NoRequest
    /\ response = {}
    /\ reviews = <<>>
    /\ submissions = SeedSubmissions
    /\ now = 0
    /\ NoUploads

NextModeration ==
    \/ \E r \in CreateRequests : create(r.user, r.slug, r.images, r.recommendation)
    \/ \E r \in ModerateRequests(reviews) : patch(r.user, r.pk, r.data)
    \/ \E slug \in 1..NoSlug, limit \in ListLimits : item_reviews(slug, limit)
    \/ \E username \in Users \cup {"nobody"}, limit \in ListLimits :
          public_user_reviews(username, limit)
    \/ \E username \in Users \cup {"nobody"}, limit \in ListLimits :
          public_user_submissions(username, limit)
    \/ \E actor \in {"alice", Anonymous}, status \in {PENDING, DRAFT} :
          submission_create(actor, status)
    \/ finalize_response

SpecModeration == InitModeration /\ [][NextModeration]_vars

\* the reviews of a user, and those of them that await moderation
ReviewsOf(table, user) == {k \in DOMAIN table : table[k].author = user}

PendingOf(table, user) == {k \in ReviewsOf(table, user) : table[k].status = PENDING}

\* the step just taken served a review-create request
CreateServed == request'.endpoint = "item-review-list-create" /\ request'.method = "POST"

\* the step just taken served a moderate request
ModerateServed == request'.endpoint = "item-review-moderate"

\* C18: whatever create and moderate requests were served, one at a time, a
\* user has at most one review per item and at most one PENDING review; a
\* create request of a user who has a PENDING review, or a review of the
\* target item, is answered 409 and creates nothing; a create request that is
\* accepted adds exactly one review, in PENDING status.
C18_OneReviewPerItemOnePending ==
    /\ [](\A user \in Accounts :
            /\ \A j, k \in ReviewsOf(reviews, user) :
                  reviews[j].item = reviews[k].item => j = k
            /\ Cardinality(PendingOf(reviews, user)) <= 1)
    /\ [][CreateServed /\ request'.user \in Accounts
              /\ request'.slug \in DOMAIN catalog.items =>
            \A answer \in response' :
              /\ PendingOf(reviews, request'.user) # {}
                    \/ (\E k \in ReviewsOf(reviews, request'.user) :
                           reviews[k].item = request'.slug)
                 => answer.status_code = 409 /\ reviews' = reviews
              /\ answer.status_code = 201 =>
                    /\ Len(reviews') = Len(reviews) + 1
                    /\ SubSeq(reviews', 1, Len(reviews)) = reviews
                    /\ reviews'[Len(reviews')].status = PENDING
                    /\ reviews'[Len(reviews')].author = request'.user
                    /\ reviews'[Len(reviews')].item = request'.slug
              /\ answer.status_code # 201 => reviews' = reviews]_vars

\* C18 witness: a user with an approved review of one item and a PENDING
\* review of the other, whose next create request was answered 409
C18_Witness ==
    \E answer \in response :
        /\ request.endpoint = "item-review-list-create" /\ request.method = "POST"
        /\ answer.status_code = 409
        /\ Cardinality(ReviewsOf(reviews, request.user)) = 2
        /\ Cardinality(PendingOf(reviews, request.user)) = 1

\* the status a moderate request submits, trimmed and lower-cased, when it
\* is a text
SubmittedStatus(data) ==
    IF OrEmpty(data.status).kind = "str"
    THEN {Lower(Strip(OrEmpty(data.status).text))}
    ELSE {}

\* C19: a moderate request of a staff user changes the review only when the
\* submitted status, trimmed and lower-cased, is 'approved' or 'rejected';
\* any other value is answered 400 and leaves the review as it was; a
\* successful request sets the status, moderated_by (the acting staff user)
\* and moderated_at, and no moderate request puts a review into PENDING.
C19_ModerateNeedsApprovedOrRejected ==
    [][ModerateServed /\ request'.user \in Staff /\ request'.pk \in DOMAIN reviews =>
          \A answer \in response' :
             LET pk == request'.pk
                 accepted == SubmittedStatus(request'.data)
                                \cap {ApprovedText, RejectedText}
             IN  /\ accepted = {} =>
                       answer.status_code = 400 /\ reviews' = reviews
                 /\ reviews' # reviews => accepted # {}
                 /\ answer.status_code = 200 =>
                       /\ accepted # {}
                       /\ reviews'[pk].status \in {APPROVED, REJECTED}
                       /\ NextStatus(CHOOSE t \in accepted : TRUE) = {reviews'[pk].status}
                       /\ reviews'[pk].moderated_by = {request'.user}
                       /\ reviews'[pk].moderated_at = {now'}
                       /\ \A k \in DOMAIN reviews : k # pk => reviews'[k] = reviews[k]
                 /\ \A k \in DOMAIN reviews :
                       reviews'[k].status = PENDING => reviews[k].status = PENDING]_vars

\* the part of C19 the code keeps: a moderate request that is not answered
\* 200 changes no review, and none puts a review into PENDING
ModerateChangesOnlyOnSuccess ==
    [][ModerateServed =>
          \A answer \in response' :
             /\ answer.status_code # 200 => reviews' = reviews
             /\ \A k \in DOMAIN reviews :
                   reviews'[k].status = PENDING => reviews[k].status = PENDING]_vars

\* the public list endpoints
PublicLists == {"public-user-reviews", "public-user-submissions"}

PublicListServed ==
    \/ request.endpoint \in PublicLists
    \/ request.endpoint = "item-review-list-create" /\ request.method = "GET"

\* the table a public list reads
TableRead == IF request.endpoint = "public-user-submissions" THEN submissions ELSE reviews

\* C20: the public item review list, the public per-user review list and the
\* public per-user submission list return only records that are APPROVED when
\* the request is served, whatever create and moderate requests came before.
C20_PublicListsReturnApprovedOnly ==
    /\ [](PublicListServed =>
            \A answer \in response : answer.status_code = 200 =>
               \A j \in 1..Len(answer.data) : answer.data[j].status = APPROVED)
    /\ [][request'.endpoint \in PublicLists
             \/ (request'.endpoint = "item-review-list-create" /\ request'.method = "GET") =>
            \A answer \in response' : answer.status_code = 200 =>
               \A j \in 1..Len(answer.data) :
                  LET table == IF request'.endpoint = "public-user-submissions"
                               THEN submissions' ELSE reviews'
                  IN  /\ answer.data[j].id \in DOMAIN table
                      /\ table[answer.data[j].id].status = APPROVED]_vars

\* C20 witness: the list of an item's reviews returns the approved one while
\* the item has a pending review too
C20_Witness ==
    \E answer \in response :
        /\ request.endpoint = "item-review-list-create" /\ request.method = "GET"
        /\ answer.status_code = 200
        /\ Len(answer.data) = 1
        /\ {reviews[k].status : k \in {j \in DOMAIN reviews : reviews[j].item = request.slug}}
              = {APPROVED, PENDING}

\* the dimension nested under a parent dimension
ChildDimension(d) == IF d = "category" THEN "subcategory" ELSE "substyle"

\* C24: in filters.categories and filters.styles a parent option is flagged
\* selected iff its own identifier is selected or one of its nested options
\* is flagged; every flat and every nested option is flagged iff its
\* identifier is in the selected set of its own dimension.
C24_ParentSelectedWithChild ==
    \A r \in response :
        /\ \A d \in {"category", "style"} : \A k \in 1..Len(FlatOptions(r, d)) :
              LET option == FlatOptions(r, d)[k]
              IN  /\ option.selected <=>
                        \/ option.id \in Range(r.selected[d])
                        \/ \E j \in 1..Len(option.children) : option.children[j].selected
                  /\ \A j \in 1..Len(option.children) :
                        option.children[j].selected <=>
                            option.children[j].id \in Range(r.selected[ChildDimension(d)])
        /\ \A d \in DimensionSet \ {"category", "style", "subcategory", "substyle"} :
              \A k \in 1..Len(FlatOptions(r, d)) :
                  FlatOptions(r, d)[k].selected <=>
                      FlatOptions(r, d)[k].id \in Range(r.selected[d])

\* C24 witness: a category that is not selected itself is flagged because one
\* of its subcategories is selected, next to a category that is not flagged
C24_Witness ==
    \E r \in response : \E k, m \in 1..Len(r.filters.categories) :
        /\ r.selected.category = NoValues
        /\ r.filters.categories[k].selected
        /\ \E j \in 1..Len(r.filters.categories[k].children) :
              r.filters.categories[k].children[j].selected
        /\ ~r.filters.categories[m].selected

(***************************************************************************)
(* The caps of the option lists.  The catalog with one row more than the   *)
(* cap in every dimension, and the same catalog with a second item that    *)
(* carries the last row of every dimension, so that the last row by name   *)
(* has the highest item_count.                                             *)
(***************************************************************************)
SkewedCatalog ==
    [CappedCatalog EXCEPT
        !.items[2] = Dressed(Item(PUBLISHED, CappedRows["brand"], {}, {}, {},
                                  {CappedRows["tag"]}, {}, {}),
                             {CappedRows["color"]}, {CappedRows["collection"]},
                             {CappedRows["fabric"]}, {CappedRows["feature"]}),
        !.items[3] = Item(PUBLISHED, CappedRows["brand"], {}, {}, {}, {}, {}, {})]

InitCap ==
    /\ catalog \in {CappedCatalog, SkewedCatalog}
    /\ settings = Unset
    /\ request \in SingleSelections(catalog)
    /\ response = {}
    /\ NoModeration

SpecCap == InitCap /\ [][list]_vars

\* the capped option lists
CappedDimensions == {"brand", "tag", "color", "collection", "fabric", "feature"}

\* the row an option stands for
OptionRow(option) == DecimalValue(option.id)

\* the options of dimension d come by descending item_count, then by name,
\* and no unselected row left out has a higher item_count than a listed one
ByCountAndCut(r, d) ==
    LET options == FlatOptions(r, d)
        CountOf(row) == item_count(catalog, d, row)
        counts == [k \in 1..Len(options) |-> CountOf(OptionRow(options[k]))]
        listed == {OptionRow(options[k]) : k \in 1..Len(options)}
    IN  /\ \A j, k \in 1..Len(options) :
              j < k =>
                  \/ counts[j] > counts[k]
                  \/ /\ counts[j] = counts[k]
                     /\ NameOf(catalog, d, OptionRow(options[j]))
                           <= NameOf(catalog, d, OptionRow(options[k]))
        /\ \A row \in (1..catalog.rows[d]) \ listed :
              IdText(row) \notin Range(r.selected[d]) =>
                  \A k \in 1..Len(options) : CountOf(row) <= counts[k]

\* C25: every capped option list (brands, tags, colors, collections, fabrics,
\* features) is ordered by descending item_count, then by name or slug, and
\* the cap keeps a prefix of that order: no unselected option dropped by the
\* cap has a higher item_count than an option that is kept.
C25_CappedListsByCount ==
    \A r \in response : \A d \in CappedDimensions : ByCountAndCut(r, d)

\* the part of C25 the code keeps: the brand, tag and color lists
CountedListsByCount ==
    \A r \in response : \A d \in {"brand", "tag", "color"} : ByCountAndCut(r, d)


(***************************************************************************)
(* The textual forms of an identifier.  The small catalogs, with one       *)
(* value selected in a dimension that is looked up by id, written as the   *)
(* payload prints it or in braces.                                         *)
(***************************************************************************)
Braced(text) == <<"{">> \o text \o <<"}">>

FormRequests(cat) ==
    {EmptyRequest}
      \cup UNION {{[EmptyRequest EXCEPT ![d] = <<v>>] :
                      v \in FacetIds(cat, d) \cup {Braced(t) : t \in FacetIds(cat, d)}} :
                     d \in UUIDDimensions}

InitForms ==
    /\ catalog \in FacetCatalogs
    /\ settings = Unset
    /\ request \in FormRequests(catalog)
    /\ response = {}
    /\ NoModeration

SpecForms == InitForms /\ [][list]_vars

\* the option of dimension d is carried by a PUBLISHED item of the catalog
Carried(d, option) == item_count(catalog, d, OptionRow(option)) > 0

\* C26: no option of the filters payload, flat, parent or nested, is both
\* unselected and carried by no PUBLISHED item.
C26_NoIdleOption ==
    \A r \in response :
        /\ \A d \in DimensionSet \ {"subcategory", "substyle"} :
              \A k \in 1..Len(FlatOptions(r, d)) :
                  FlatOptions(r, d)[k].selected \/ Carried(d, FlatOptions(r, d)[k])
        /\ \A d \in {"category", "style"} : \A k \in 1..Len(FlatOptions(r, d)) :
              \A j \in 1..Len(FlatOptions(r, d)[k].children) :
                  LET option == FlatOptions(r, d)[k].children[j]
                  IN  option.selected \/ Carried(ChildDimension(d), option)


(***************************************************************************)
(* The price facet.  Items of one brand with no price, one price, or       *)
(* several prices of one currency (one per source), under each setting of  *)
(* the preferred currency.                                                 *)
(***************************************************************************)
PricedItems == 3

PriceKinds ==
    {{}, {ItemPrice(USD, 2, "origin")}, {ItemPrice(EUR, 1, "origin")},
     {ItemPrice(EUR, 3, "origin")},
     {ItemPrice(USD, 1, "origin"), ItemPrice(USD, 2, "converted"),
      ItemPrice(USD, 3, "manual")}}

PriceCatalogs ==
    {Catalog(items, [d \in DimensionSet |-> 1], <<1>>, <<{1}>>, <<1>>) :
        items \in UNION {[1..n -> {Priced(PUBLISHED, {}, prices) : prices \in PriceKinds}
                                    \cup {Priced(DRAFT, {}, {ItemPrice(USD, 3, "origin")})}] :
                            n \in 1..PricedItems}}

PriceSettings == RangeSettings \cup {[PREFERRED_CURRENCY_CODE |-> {EmptyStr}]}

InitPrices ==
    /\ catalog \in PriceCatalogs
    /\ settings \in PriceSettings
    /\ request = EmptyRequest
    /\ response = {}
    /\ NoModeration

SpecPrices == InitPrices /\ [][list]_vars

\* the PUBLISHED items priced in currency code
PricedIn(code) ==
    {i \in DOMAIN catalog.items :
        /\ catalog.items[i].status = PUBLISHED
        /\ \E price \in catalog.items[i].prices : price.currency = code}

\* C27: filters.prices.currency is the configured preferred currency when a
\* PUBLISHED item is priced in it, otherwise a currency in which the largest
\* number of PUBLISHED items are priced; min and max are the smallest and
\* the largest amount of PUBLISHED items in that currency, null when none.
C27_PriceCurrencyAndBounds ==
    \A r \in response :
        LET prices == r.filters.prices
            usable == {c \in settings.PREFERRED_CURRENCY_CODE : PricedIn(c) # {}}
            priced == {k \in 1..Len(Currencies) : PricedIn(Currencies[k]) # {}}
        IN  /\ usable # {} => prices.currency \in usable
            /\ usable = {} /\ priced # {} =>
                  \E k \in priced :
                      /\ prices.currency = Currencies[k]
                      /\ \A j \in priced : Cardinality(PricedIn(Currencies[k]))
                                              >= Cardinality(PricedIn(Currencies[j]))
            /\ prices.min = MinOf(PublishedAmounts(catalog, prices.currency))
            /\ prices.max = MaxOf(PublishedAmounts(catalog, prices.currency))


(***************************************************************************)
(* The range predicates of the filter set against the echoed ranges.       *)
(***************************************************************************)
\* the clauses ItemFilter ORs together for the request: none when the method
\* is not called
AppliedReleaseClauses(req) ==
    IF MethodCalled(req.release_year_range)
    THEN ReleaseClauses(req.release_year_range) ELSE <<>>

AppliedPriceClauses(stg, req) ==
    IF MethodCalled(req.price_range) THEN PriceClauses(stg, req.price_range) ELSE <<>>

\* C28: the range predicates ItemFilter applies are exactly the entries
\* echoed in selected.release_year_ranges and selected.price_ranges: the same
\* entries kept and discarded, with the same currency and bounds.
C28_EchoedRangesAreApplied ==
    \A r \in response :
        r.status_code = 200 =>
            /\ [k \in 1..Len(r.selected.release_year_ranges) |->
                   [min |-> r.selected.release_year_ranges[k].min,
                    max |-> r.selected.release_year_ranges[k].max]]
                 = AppliedReleaseClauses(request)
            /\ [k \in 1..Len(r.selected.price_ranges) |->
                   [currency |-> {r.selected.price_ranges[k].currency},
                    min |-> r.selected.price_ranges[k].min,
                    max |-> r.selected.price_ranges[k].max]]
                 = AppliedPriceClauses(settings, request)


(***************************************************************************)
(* ImageViewSet.  An Image row keeps its uploader and its three links to   *)
(* the catalog (item, brand, variant: {} is null); a field of the upload   *)
(* form is absent, empty (null for a field that allows it) or a key.       *)
(***************************************************************************)
MaxImages == 2

Null == [kind |-> "null"]
Pk(k) == [kind |-> "pk", pk |-> k]

LinkFields == {"item", "brand", "variant"}

Image(uploaded_by, links, caption) ==
    [uploaded_by |-> uploaded_by, item |-> links.item, brand |-> links.brand,
     variant |-> links.variant, caption |-> caption, deleted |-> FALSE]

Links(image) == [field \in LinkFields |-> image[field]]

NoLinks == [field \in LinkFields |-> {}]

\* the ItemVariant rows
ItemVariants == {1}

\* the rows a PrimaryKeyRelatedField of the upload form accepts
RelatedKeys(cat, field) ==
    CASE field = "item" -> DOMAIN cat.items
      [] field = "brand" -> 1..cat.rows["brand"]
      [] field = "variant" -> ItemVariants

\* ImageUploadSerializer.is_valid: a key must be the key of a row, and a
\* new image needs its file
upload_is_valid(cat, creating, data) ==
    /\ \A field \in LinkFields :
          data[field].kind = "pk" => data[field].pk \in RelatedKeys(cat, field)
    /\ creating => data.image_file

\* the value of a link in validated_data: None or the row
Validated(input) == IF input.kind = "pk" THEN {input.pk} ELSE {}

\* ImageViewSet._user_is_editor: is_staff or is_superuser
_user_is_editor(user) == user \in Staff

\* IsAuthenticated / IsImageOwnerOrCatalogEditor.has_permission
has_permission(user) == user # Anonymous

has_object_permissionOfOwner(user, obj) ==
    user # Anonymous /\ (_user_is_editor(user) \/ obj.uploaded_by = {user})

\* IsImageOwnerOrCatalogEditor.has_object_permission
has_object_permission(user, obj) ==
    /\ user # Anonymous
    /\ \/ _user_is_editor(user)
       \/ /\ obj.uploaded_by = {user}
          /\ \A field \in LinkFields : obj[field] = {}

\* perform_create: the links saved with the new row
created_links(user, data) ==
    [field \in LinkFields |->
        IF _user_is_editor(user) THEN Validated(data[field]) ELSE {}]

updated_linksAsSubmitted(user, image, data) ==
    [field \in LinkFields |->
        IF data[field] = Absent THEN image[field] ELSE Validated(data[field])]

\* perform_update: the links of the row after serializer.save()
updated_links(user, image, data) ==
    [field \in LinkFields |->
        IF ~_user_is_editor(user) \/ data[field] = Absent
        THEN image[field] ELSE Validated(data[field])]

\* get_object: the row of key pk, if any
ImageExists(table, pk) == pk \in DOMAIN table /\ ~table[pk].deleted

\* ImageViewSet.create
image_create(actor, data) ==
    /\ response = {}
    /\ request' = [endpoint |-> "image-list", method |-> "POST", user |-> actor,
                   data |-> data]
    /\ IF ~has_permission(actor)
       THEN /\ \E code \in Denied : response' = {[status_code |-> code]}
            /\ UNCHANGED <<uploaded_images, now>>
       ELSE IF ~upload_is_valid(catalog, TRUE, data)
       THEN response' = {[status_code |-> 400]} /\ UNCHANGED <<uploaded_images, now>>
       ELSE /\ now < MaxClock /\ Len(uploaded_images) < MaxImages
            /\ now' = now + 1
            /\ uploaded_images' =
                   Append(uploaded_images,
                          Image({actor}, created_links(actor, data), data.caption))
            /\ response' = {[status_code |-> 201, id |-> Len(uploaded_images) + 1]}
    /\ UNCHANGED <<catalog, settings, reviews, submissions, auth, inflight>>

\* ImageViewSet.update / partial_update
image_update(actor, pk, method, data) ==
    /\ response = {}
    /\ request' = [endpoint |-> "image-detail", method |-> method, user |-> actor,
                   pk |-> pk, data |-> data]
    /\ IF ~has_permission(actor)
       THEN /\ \E code \in Denied : response' = {[status_code |-> code]}
            /\ UNCHANGED <<uploaded_images, now>>
       ELSE IF ~ImageExists(uploaded_images, pk)
       THEN response' = {[status_code |-> 404]} /\ UNCHANGED <<uploaded_images, now>>
       ELSE IF ~has_object_permission(actor, uploaded_images[pk])
       THEN response' = {[status_code |-> 403]} /\ UNCHANGED <<uploaded_images, now>>
       ELSE IF ~upload_is_valid(catalog, FALSE, data)
       THEN response' = {[status_code |-> 400]} /\ UNCHANGED <<uploaded_images, now>>
       ELSE LET links == updated_links(actor, uploaded_images[pk], data)
            IN  /\ now < MaxClock
                /\ now' = now + 1
                /\ uploaded_images' =
                       [uploaded_images EXCEPT ![pk] =
                           [@ EXCEPT !.item = links.item, !.brand = links.brand,
                                     !.variant = links.variant,
                                     !.caption = data.caption]]
                /\ response' = {[status_code |-> 200, id |-> pk]}
    /\ UNCHANGED <<catalog, settings, reviews, submissions, auth, inflight>>

\* ImageViewSet.destroy
image_destroy(actor, pk) ==
    /\ response = {}
    /\ request' = [endpoint |-> "image-detail", method |-> "DELETE", user |-> actor,
                   pk |-> pk]
    /\ IF ~has_permission(actor)
       THEN /\ \E code \in Denied : response' = {[status_code |-> code]}
            /\ UNCHANGED <<uploaded_images, now>>
       ELSE IF ~ImageExists(uploaded_images, pk)
       THEN response' = {[status_code |-> 404]} /\ UNCHANGED <<uploaded_images, now>>
       ELSE IF ~has_object_permission(actor, uploaded_images[pk])
       THEN response' = {[status_code |-> 403]} /\ UNCHANGED <<uploaded_images, now>>
       ELSE /\ now < MaxClock
            /\ now' = now + 1
            /\ uploaded_images' = [uploaded_images EXCEPT ![pk].deleted = TRUE]
            /\ response' = {[status_code |-> 204]}
    /\ UNCHANGED <<catalog, settings, reviews, submissions, auth, inflight>>

(***************************************************************************)
(* Scenario: the accounts of the review scenario upload, update and delete *)
(* images; the forms name no link, an item, a brand and a variant, empty   *)
(* links, or an item that does not exist.                                  *)
(***************************************************************************)
Upload(item, brand, variant, caption, image_file) ==
    [item |-> item, brand |-> brand, variant |-> variant, caption |-> caption,
     image_file |-> image_file]

LinkForms ==
    {<<Absent, Absent, Absent>>, <<Pk(1), Absent, Absent>>,
     <<Absent, Pk(1), Pk(1)>>, <<Null, Null, Null>>, <<Pk(NoSlug), Absent, Absent>>}

CreateForms ==
    {Upload(f[1], f[2], f[3], "Initial", TRUE) : f \in LinkForms}
      \cup {Upload(Absent, Absent, Absent, "Initial", FALSE)}

UpdateForms == {Upload(f[1], f[2], f[3], "Updated", FALSE) : f \in LinkForms}

InitImages ==
    /\ catalog = ModerationCatalog
    /\ settings = Unset
    /\ request = NoRequest
    /\ response = {}
    /\ reviews = <<>>
    /\ submissions = <<>>
    /\ now = 0
    /\ NoUploads

NextImages ==
    \/ \E actor \in Accounts \cup {Anonymous}, data \in CreateForms :
          image_create(actor, data)
    \/ \E actor \in Accounts \cup {Anonymous}, pk \in 1..(Len(uploaded_images) + 1),
          method \in {"PUT", "PATCH"}, data \in UpdateForms :
          image_update(actor, pk, method, data)
    \/ \E actor \in Accounts \cup {Anonymous}, pk \in 1..(Len(uploaded_images) + 1) :
          image_destroy(actor, pk)
    \/ finalize_response

SpecImages == InitImages /\ [][NextImages]_vars

\* the request answered by this step is a write of ImageViewSet by an
\* authenticated user who is neither staff nor superuser
NonEditorImageWrite ==
    /\ response = {} /\ response' # {}
    /\ request'.endpoint \in {"image-list", "image-detail"}
    /\ request'.user \in Accounts /\ ~_user_is_editor(request'.user)

ImageWriteNeverLinks ==
    NonEditorImageWrite =>
        /\ \A k \in DOMAIN uploaded_images :
              Links(uploaded_images'[k]) = Links(uploaded_images[k])
        /\ \A k \in DOMAIN uploaded_images' \ DOMAIN uploaded_images :
              Links(uploaded_images'[k]) = NoLinks

\* C21: a create or update request on an image by a user who is neither
\* staff nor superuser never links the image: a created row has item, brand
\* and variant null whatever the form says, and an update leaves the three
\* links of the row as they were.
C21_NonEditorNeverLinks == [][ImageWriteNeverLinks]_vars

\* C21 witness: a user who is not staff has updated an image with a form that
\* names an item, and the image is still linked to nothing
C21_Witness ==
    \E r \in response :
        /\ request.endpoint = "image-detail" /\ request.method = "PATCH"
        /\ request.user \in Users
        /\ request.data.item = Pk(1)
        /\ r.status_code = 200
        /\ Links(uploaded_images[r.id]) = NoLinks
        /\ uploaded_images[r.id].caption = "Updated"

\* a user who is not staff has created an image with a form that names a
\* brand and a variant, and the row is linked to nothing
CreatedUnlinked ==
    \E r \in response :
        /\ request.endpoint = "image-list" /\ request.user \in Users
        /\ request.data.brand = Pk(1)
        /\ r.status_code = 201
        /\ Links(uploaded_images[r.id]) = NoLinks

\* the request answered by this step is an update or a delete of an
\* existing image by an authenticated user who is not staff
NonEditorImageChange ==
    /\ NonEditorImageWrite
    /\ request'.endpoint = "image-detail"
    /\ ImageExists(uploaded_images, request'.pk)

ImageChangeNeedsUnlinkedOwner ==
    NonEditorImageChange =>
        LET obj == uploaded_images[request'.pk]
            allowed == obj.uploaded_by = {request'.user} /\ Links(obj) = NoLinks
        IN  \A r \in response' :
                /\ ~allowed => r.status_code = 403 /\ uploaded_images' = uploaded_images
                /\ r.status_code \in {200, 204} => allowed

\* C22: a user who is not staff may update or delete an image only if they
\* uploaded it and it is linked to no item, brand or variant; once it is
\* linked the uploader is refused, and any other user who is not staff is
\* refused with 403 in every state.
C22_OnlyUnlinkedOwnerChanges == [][ImageChangeNeedsUnlinkedOwner]_vars

\* C22 witness: the uploader is refused on their own image, which the staff
\* have linked to an item
C22_Witness ==
    \E r \in response :
        /\ request.endpoint = "image-detail" /\ request.method = "DELETE"
        /\ ImageExists(uploaded_images, request.pk)
        /\ uploaded_images[request.pk].uploaded_by = {request.user}
        /\ request.user \in Users
        /\ uploaded_images[request.pk].item # {}
        /\ r.status_code = 403

\* the uploader has deleted their own image, linked to nothing
OwnerDeleted ==
    \E r \in response :
        /\ request.endpoint = "image-detail" /\ request.method = "DELETE"
        /\ request.user \in Users
        /\ request.pk \in DOMAIN uploaded_images
        /\ uploaded_images[request.pk].deleted
        /\ r.status_code = 204


(***************************************************************************)
(* CognitoLoginView.  The claims of a verified ID token are JSON values:   *)
(* absent, a boolean, a text, a number or a list (of a given length).  A   *)
(* User row is known by its email; UserProfile and Token rows by their     *)
(* user.                                                                   *)
(***************************************************************************)
Bool(b) == [kind |-> "bool", value |-> b]
List(n) == [kind |-> "list", len |-> n]

TrueTexts == {<<"t", "r", "u", "e">>, <<"1">>, <<"y", "e", "s">>}

_claim_is_true(value) ==
    CASE value.kind = "bool" -> value.value
      [] value.kind = "str" -> Lower(Strip(value.text)) \in TrueTexts
      [] value.kind = "number" -> value.n = 1
      [] OTHER -> FALSE

Providers ==
    {<<"g", "o", "o", "g", "l", "e">>, <<"f", "a", "c", "e", "b", "o", "o", "k">>,
     <<"a", "p", "p", "l", "e">>, <<"a", "m", "a", "z", "o", "n">>,
     <<"l", "o", "g", "i", "n", "w", "i", "t", "h", "a", "m", "a", "z", "o", "n">>}

\* str(claims.get("cognito:username") or ""), for a text or a missing claim
UsernameText(value) == IF value.kind = "str" THEN value.text ELSE EmptyStr

\* "_" in cognito_username and the prefix before it names a provider
provider_prefix(cognito_username) ==
    LET p == Partition(cognito_username, "_")
    IN  p.sep # EmptyStr /\ Lower(Strip(p.head)) \in Providers

_cognito_claims_are_federatedByUsername(claims) ==
    provider_prefix(UsernameText(claims.cognito_username))

_cognito_claims_are_federated(claims) ==
    \/ provider_prefix(UsernameText(claims.cognito_username))
    \/ CASE claims.identities.kind = "list" -> claims.identities.len > 0
         [] claims.identities.kind = "str" -> Strip(claims.identities.text) # EmptyStr
         [] OTHER -> FALSE

\* not email: the claim is missing or an empty text
NoEmail(claims) == claims.email.kind # "str" \/ claims.email.text = ""

\* CognitoLoginView.post
cognito_login(id_token, claims) ==
    /\ response = {}
    /\ request' = [endpoint |-> "api-cognito-login", method |-> "POST",
                   id_token |-> id_token, claims |-> claims]
    /\ IF id_token # "verified"
       THEN response' = {[status_code |-> 400, detail |-> "token"]} /\ auth' = auth
       ELSE IF NoEmail(claims)
       THEN response' = {[status_code |-> 400, detail |-> "missing email"]}
            /\ auth' = auth
       ELSE IF ~_claim_is_true(claims.email_verified)
               /\ ~_cognito_claims_are_federated(claims)
       THEN response' = {[status_code |-> 400, detail |-> "not verified"]}
            /\ auth' = auth
       ELSE LET email == claims.email.text
            IN  /\ auth' = [users |-> auth.users \cup {email},
                            profiles |-> auth.profiles \cup {email},
                            tokens |-> auth.tokens \cup {email}]
                /\ response' = {[status_code |-> 200, token |-> email,
                                 user |-> [email |-> email],
                                 created |-> email \notin auth.users]}
    /\ UNCHANGED <<catalog, settings, moderation, uploaded_images, inflight>>

(***************************************************************************)
(* Scenario: tokens that are missing, rejected or verified; verified       *)
(* claims with and without an email, a verification flag in the forms      *)
(* Cognito issues, a native or a provider user name, and identities        *)
(* absent, empty, a list or its JSON text.                                 *)
(***************************************************************************)
Emails == {"federated@example.com", "native@example.com"}

EmailClaims == {Absent, Str("")} \cup {Str(e) : e \in Emails}

VerifiedClaims ==
    {Absent, Bool(TRUE), Bool(FALSE), Str(<<"t", "r", "u", "e">>),
     Str(<<"T", "r", "u", "e">>), Str(<<"f", "a", "l", "s", "e">>)}

UsernameClaims ==
    {Absent, Str(<<"n", "a", "t", "i", "v", "e">>),
     Str(<<"G", "o", "o", "g", "l", "e", "_", "1">>),
     Str(<<"j", "o", "h", "n", "_", "d", "o", "e">>)}

IdentityClaims == {Absent, List(0), List(1), Str(EmptyStr), Str(<<"[", "{", "}", "]">>)}

CognitoClaims ==
    [email : EmailClaims, email_verified : VerifiedClaims,
     cognito_username : UsernameClaims, identities : IdentityClaims]

InitLogin ==
    /\ catalog = ModerationCatalog
    /\ settings = Unset
    /\ request = NoRequest
    /\ response = {}
    /\ reviews = <<>>
    /\ submissions = <<>>
    /\ now = 0
    /\ NoUploads

NextLogin ==
    \/ \E id_token \in {"missing", "invalid", "verified"}, claims \in CognitoClaims :
          cognito_login(id_token, claims)
    \/ finalize_response

SpecLogin == InitLogin /\ [][NextLogin]_vars

\* what the claims say: an email, a verification flag that is true, a user
\* name with the prefix of a provider, identities that are not empty
HasEmail(claims) == claims.email.kind = "str" /\ claims.email.text # ""

EmailVerified(claims) ==
    claims.email_verified \in {Bool(TRUE), Str(<<"t", "r", "u", "e">>),
                               Str(<<"T", "r", "u", "e">>)}

ProviderPrefixed(claims) ==
    /\ claims.cognito_username.kind = "str"
    /\ \E k \in 1..Len(claims.cognito_username.text) :
          /\ claims.cognito_username.text[k] = "_"
          /\ Lower(SubSeq(claims.cognito_username.text, 1, k - 1)) \in Providers

NonEmptyIdentities(claims) ==
    \/ claims.identities.kind = "list" /\ claims.identities.len > 0
    \/ claims.identities.kind = "str" /\ claims.identities.text # EmptyStr

MayLogIn(claims) ==
    HasEmail(claims)
      /\ (EmailVerified(claims) \/ ProviderPrefixed(claims) \/ NonEmptyIdentities(claims))

\* the request answered by this step is a login with a verified token
VerifiedLogin ==
    /\ response = {} /\ response' # {}
    /\ request'.endpoint = "api-cognito-login"
    /\ request'.id_token = "verified"

LoginIffVerifiedOrFederated ==
    VerifiedLogin =>
        \A r \in response' :
            LET claims == request'.claims
            IN  IF MayLogIn(claims)
                THEN /\ r.status_code = 200
                     /\ r.token \in auth'.tokens
                     /\ r.user.email = claims.email.text
                     /\ auth'.users = auth.users \cup {claims.email.text}
                ELSE /\ r.status_code = 400
                     /\ auth' = auth

\* C23: with verified Cognito claims the login succeeds, returning a token
\* and creating the user when no user has the email, iff the claims hold an
\* email and email_verified is true or the account is federated (a user name
\* with a provider prefix, or identities that are not empty); otherwise it
\* is answered 400 and creates no user and no token.
C23_LoginIffVerifiedOrFederated == [][LoginIffVerifiedOrFederated]_vars

\* C23 witness: an account whose email is not verified and whose user name is
\* native logs in through its identities, and its user is created
C23_Witness ==
    \E r \in response :
        /\ request.endpoint = "api-cognito-login"
        /\ request.claims.email_verified = Bool(FALSE)
        /\ request.claims.cognito_username = Str(<<"n", "a", "t", "i", "v", "e">>)
        /\ request.claims.identities = List(1)
        /\ r.status_code = 200 /\ r.created
        /\ r.user.email \in auth.users

\* an unverified native account is refused while another user is logged in
NativeRefused ==
    \E r \in response :
        /\ request.endpoint = "api-cognito-login"
        /\ request.id_token = "verified"
        /\ request.claims.email = Str("native@example.com")
        /\ r.status_code = 400
        /\ auth.users = {"federated@example.com"}


(***************************************************************************)
(* ItemReviewListCreateView.create served by several workers at once.      *)
(* Each request runs in its own transaction (ATOMIC_REQUESTS) at the       *)
(* default isolation level: each of its queries reads the rows committed   *)
(* so far, and its insert is committed when the view returns.  The view    *)
(* takes no lock and handles no IntegrityError; a unique constraint on     *)
(* (item, author), if the table has one, makes the second insert of a pair *)
(* fail.                                                                   *)
(***************************************************************************)
Workers == 2

Idle == [pc |-> "idle"]

Answered(status_code) == [pc |-> "answered", status_code |-> status_code]

\* the request is accepted and the first exists() is evaluated
create_begin(w, actor, slug) ==
    /\ inflight[w] = Idle
    /\ IF actor = Anonymous
       THEN \E code \in Denied : inflight' = [inflight EXCEPT ![w] = Answered(code)]
       ELSE IF slug \notin DOMAIN catalog.items
       THEN inflight' = [inflight EXCEPT ![w] = Answered(404)]
       ELSE IF pending_exists(reviews, actor)
       THEN inflight' = [inflight EXCEPT ![w] = Answered(409)]
       ELSE inflight' = [inflight EXCEPT ![w] =
                            [pc |-> "pending_checked", user |-> actor, slug |-> slug]]
    /\ UNCHANGED <<catalog, settings, request, response, moderation,
                   uploaded_images, auth>>

\* the second exists()
create_check(w) ==
    /\ inflight[w].pc = "pending_checked"
    /\ IF already_reviewed(reviews, inflight[w].slug, inflight[w].user)
       THEN inflight' = [inflight EXCEPT ![w] = Answered(409)]
       ELSE inflight' = [inflight EXCEPT ![w].pc = "checked"]
    /\ UNCHANGED <<catalog, settings, request, response, moderation,
                   uploaded_images, auth>>

\* ItemReview.objects.create(...) and the commit of the request
create_insert(w) ==
    /\ inflight[w].pc = "checked"
    /\ now < MaxClock
    /\ \/ /\ now' = now + 1
          /\ reviews' = Append(reviews, ItemReview(inflight[w].slug, inflight[w].user,
                                                   1, now + 1))
          /\ inflight' = [inflight EXCEPT ![w] = Answered(201)]
       \/ /\ already_reviewed(reviews, inflight[w].slug, inflight[w].user)
          /\ inflight' = [inflight EXCEPT ![w] = Answered(500)]
          /\ UNCHANGED <<reviews, now>>
    /\ UNCHANGED <<catalog, settings, request, response, submissions,
                   uploaded_images, auth>>

\* the answer is sent; the worker takes the next request
create_finish(w) ==
    /\ inflight[w].pc = "answered"
    /\ inflight' = [inflight EXCEPT ![w] = Idle]
    /\ UNCHANGED <<catalog, settings, request, response, moderation,
                   uploaded_images, auth>>

InitConcurrent ==
    /\ catalog = ModerationCatalog
    /\ settings = Unset
    /\ request = NoRequest
    /\ response = {}
    /\ reviews = <<>>
    /\ submissions = <<>>
    /\ now = 0
    /\ uploaded_images = <<>>
    /\ auth = [users |-> {}, profiles |-> {}, tokens |-> {}]
    /\ inflight = [w \in 1..Workers |-> Idle]

NextConcurrent ==
    \E w \in 1..Workers :
        \/ \E actor \in Users \cup {Anonymous}, slug \in 1..NoSlug :
              create_begin(w, actor, slug)
        \/ create_check(w)
        \/ create_insert(w)
        \/ create_finish(w)

SpecConcurrent == InitConcurrent /\ [][NextConcurrent]_vars

\* C29: with review-create requests of one user served concurrently, their
\* existence checks and inserts interleaved, a user still has at most one
\* PENDING review and at most one review per item in every reachable state.
C29_ConcurrentCreatesKeepRules ==
    \A user \in Users :
        /\ Cardinality(PendingOf(reviews, user)) <= 1
        /\ \A j, k \in ReviewsOf(reviews, user) :
              reviews[j].item = reviews[k].item => j = k

\* two requests of one user for two different items both passed their
\* checks and both created a PENDING review
TwoPendingOnTwoItems ==
    \E user \in Users : \E j, k \in PendingOf(reviews, user) :
        reviews[j].item # reviews[k].item


(***************************************************************************)
(* SubmissionDraftViewSet.  A deleted row stays in the table as a mark, so *)
(* that keys are not reused.                                               *)
(***************************************************************************)
DraftQuerysetOfAnyUser(table, user) ==
    {k \in DOMAIN table : table[k].status = DRAFT /\ ~table[k].deleted}

\* SubmissionDraftViewSet.get_queryset: the keys of the requester's drafts
DraftQueryset(table, user) ==
    {k \in DOMAIN table :
        table[k].user = user /\ table[k].status = DRAFT /\ ~table[k].deleted}

\* .order_by("-updated_at"): the keys, the row written last first
RECURSIVE ByUpdatedAt(_, _)
ByUpdatedAt(table, keys) ==
    IF keys = {} THEN <<>>
    ELSE LET k == CHOOSE x \in keys : \A y \in keys :
                      \/ table[x].updated_at > table[y].updated_at
                      \/ table[x].updated_at = table[y].updated_at /\ x >= y
         IN  <<k>> \o ByUpdatedAt(table, keys \ {k})

\* ItemSubmissionSerializer.validate in draft mode: some content is needed
draft_is_valid(title) == title # ""

\* PermissionDenied of perform_update / perform_destroy
draft_denied(user, instance) == instance.user # user \/ instance.status # DRAFT

\* SubmissionDraftViewSet.list
draft_list(actor) ==
    /\ response = {}
    /\ request' = [endpoint |-> "submission-draft-list", method |-> "GET",
                   user |-> actor]
    /\ IF actor = Anonymous
       THEN \E code \in Denied : response' = {[status_code |-> code]}
       ELSE response' = {[status_code |-> 200,
                          results |-> ByUpdatedAt(submissions,
                                                  DraftQueryset(submissions, actor))]}
    /\ UNCHANGED <<catalog, settings, moderation, uploads>>

\* SubmissionDraftViewSet.retrieve
draft_retrieve(actor, pk) ==
    /\ response = {}
    /\ request' = [endpoint |-> "submission-draft-detail", method |-> "GET",
                   user |-> actor, pk |-> pk]
    /\ IF actor = Anonymous
       THEN \E code \in Denied : response' = {[status_code |-> code]}
       ELSE IF pk \notin DraftQueryset(submissions, actor)
       THEN response' = {[status_code |-> 404]}
       ELSE response' = {[status_code |-> 200, id |-> pk,
                          title |-> submissions[pk].title]}
    /\ UNCHANGED <<catalog, settings, moderation, uploads>>

\* SubmissionDraftViewSet.create / perform_create
draft_create(actor, title) ==
    /\ response = {}
    /\ request' = [endpoint |-> "submission-draft-list", method |-> "POST",
                   user |-> actor, title |-> title]
    /\ IF actor = Anonymous
       THEN /\ \E code \in Denied : response' = {[status_code |-> code]}
            /\ UNCHANGED <<submissions, now>>
       ELSE IF ~draft_is_valid(title)
       THEN response' = {[status_code |-> 400]} /\ UNCHANGED <<submissions, now>>
       ELSE /\ now < MaxClock
            /\ now' = now + 1
            /\ submissions' =
                   Append(submissions,
                          [ItemSubmission(actor, DRAFT) EXCEPT
                              !.title = title, !.updated_at = now + 1])
            /\ response' = {[status_code |-> 201, id |-> Len(submissions) + 1]}
    /\ UNCHANGED <<catalog, settings, reviews, uploads>>

\* SubmissionDraftViewSet.update / partial_update / perform_update
draft_update(actor, pk, title) ==
    /\ response = {}
    /\ request' = [endpoint |-> "submission-draft-detail", method |-> "PATCH",
                   user |-> actor, pk |-> pk, title |-> title]
    /\ IF actor = Anonymous
       THEN /\ \E code \in Denied : response' = {[status_code |-> code]}
            /\ UNCHANGED <<submissions, now>>
       ELSE IF pk \notin DraftQueryset(submissions, actor)
       THEN response' = {[status_code |-> 404]} /\ UNCHANGED <<submissions, now>>
       ELSE IF ~draft_is_valid(title)
       THEN response' = {[status_code |-> 400]} /\ UNCHANGED <<submissions, now>>
       ELSE IF draft_denied(actor, submissions[pk])
       THEN response' = {[status_code |-> 403]} /\ UNCHANGED <<submissions, now>>
       ELSE /\ now < MaxClock
            /\ now' = now + 1
            /\ submissions' =
                   [submissions EXCEPT ![pk] =
                       [@ EXCEPT !.user = actor, !.status = DRAFT, !.title = title,
                                 !.updated_at = now + 1]]
            /\ response' = {[status_code |-> 200, id |-> pk]}
    /\ UNCHANGED <<catalog, settings, reviews, uploads>>

\* SubmissionDraftViewSet.destroy / perform_destroy
draft_destroy(actor, pk) ==
    /\ response = {}
    /\ request' = [endpoint |-> "submission-draft-detail", method |-> "DELETE",
                   user |-> actor, pk |-> pk]
    /\ IF actor = Anonymous
       THEN /\ \E code \in Denied : response' = {[status_code |-> code]}
            /\ UNCHANGED <<submissions, now>>
       ELSE IF pk \notin DraftQueryset(submissions, actor)
       THEN response' = {[status_code |-> 404]} /\ UNCHANGED <<submissions, now>>
       ELSE IF draft_denied(actor, submissions[pk])
       THEN response' = {[status_code |-> 403]} /\ UNCHANGED <<submissions, now>>
       ELSE /\ now < MaxClock
            /\ now' = now + 1
            /\ submissions' = [submissions EXCEPT ![pk].deleted = TRUE]
            /\ response' = {[status_code |-> 204]}
    /\ UNCHANGED <<catalog, settings, reviews, uploads>>

(***************************************************************************)
(* Scenario: alice has a pending submission and a draft, bob a draft and   *)
(* an approved submission; alice, bob, the staff user and a request        *)
(* without credentials use the draft endpoints on every key.               *)
(***************************************************************************)
SeedDrafts ==
    <<ItemSubmission("alice", PENDING),
      [ItemSubmission("alice", DRAFT) EXCEPT !.title = "Dress"],
      [ItemSubmission("bob", DRAFT) EXCEPT !.title = "Skirt"],
      ItemSubmission("bob", APPROVED)>>

DraftTitles == {"", "Coat"}

InitDrafts ==
    /\ catalog = ModerationCatalog
    /\ settings = Unset
    /\ request = NoRequest
    /\ response = {}
    /\ reviews = <<>>
    /\ submissions = SeedDrafts
    /\ now = 0
    /\ NoUploads

NextDrafts ==
    \/ \E actor \in Accounts \cup {Anonymous} : draft_list(actor)
    \/ \E actor \in Accounts \cup {Anonymous}, pk \in 1..(Len(submissions) + 1) :
          draft_retrieve(actor, pk)
    \/ \E actor \in Accounts \cup {Anonymous}, title \in DraftTitles :
          draft_create(actor, title)
    \/ \E actor \in Accounts \cup {Anonymous}, pk \in 1..(Len(submissions) + 1),
          title \in DraftTitles : draft_update(actor, pk, title)
    \/ \E actor \in Accounts \cup {Anonymous}, pk \in 1..(Len(submissions) + 1) :
          draft_destroy(actor, pk)
    \/ finalize_response

SpecDrafts == InitDrafts /\ [][NextDrafts]_vars

\* the request answered by this step is a draft request
DraftServed ==
    /\ response = {} /\ response' # {}
    /\ request'.endpoint \in {"submission-draft-list", "submission-draft-detail"}

\* the submission of key k is a draft of the user, not deleted
OwnDraft(table, user, k) ==
    k \in DOMAIN table /\ table[k].user = user /\ table[k].status = DRAFT
      /\ ~table[k].deleted

\* the keys the answer shows
KeysRead(r) ==
    IF request'.method # "GET" \/ r.status_code # 200 THEN {}
    ELSE IF request'.endpoint = "submission-draft-list" THEN Range(r.results)
    ELSE {r.id}

DraftRequestsStayWithOwnDrafts ==
    DraftServed =>
        \A r \in response' :
            /\ \A k \in KeysRead(r) : OwnDraft(submissions, request'.user, k)
            /\ \A k \in DOMAIN submissions :
                  submissions'[k] # submissions[k] =>
                      OwnDraft(submissions, request'.user, k)
            /\ request'.method \in {"POST", "PATCH"} /\ r.status_code \in {200, 201} =>
                  /\ submissions'[r.id].user = request'.user
                  /\ submissions'[r.id].status = DRAFT
            /\ \A k \in DOMAIN submissions' \ DOMAIN submissions :
                  submissions'[k].user = request'.user /\ submissions'[k].status = DRAFT

\* C30: through SubmissionDraftViewSet a user lists, retrieves, updates and
\* deletes only submissions they own that are drafts; every create or update
\* leaves the submission owned by the requester with status DRAFT; no draft
\* request reads, changes or deletes a submission of another user or one
\* that is not a draft.
C30_DraftsStayWithTheirOwner == [][DraftRequestsStayWithOwnDrafts]_vars

\* C30 witness: bob asks to change the draft of alice and is answered 404,
\* the draft as alice left it after her own update
C30_Witness ==
    \E r \in response :
        /\ request.endpoint = "submission-draft-detail" /\ request.method = "PATCH"
        /\ request.user = "bob"
        /\ OwnDraft(submissions, "alice", request.pk)
        /\ submissions[request.pk].title = "Coat"
        /\ r.status_code = 404

\* alice lists her drafts and gets two of them, none of bob
OwnDraftsListed ==
    \E r \in response :
        /\ request.endpoint = "submission-draft-list" /\ request.method = "GET"
        /\ request.user = "alice"
        /\ r.status_code = 200 /\ Len(r.results) = 2
        /\ \E k \in DOMAIN submissions : OwnDraft(submissions, "bob", k)

\* alice has deleted her own draft; her pending submission is still there
OwnDraftDeleted ==
    \E r \in response :
        /\ request.endpoint = "submission-draft-detail" /\ request.method = "DELETE"
        /\ request.user = "alice"
        /\ r.status_code = 204
        /\ submissions[request.pk].deleted
        /\ submissions[1] = SeedDrafts[1]

====
